---- MODULE Spec2Model ----
(***************************************************************************)
(* Port programming of the FBOSS agent.                                    *)
(*                                                                         *)
(*  - SaiPortManager (SaiPortManager.cpp:26-203): the registry of port     *)
(*    handles, the reverse index from SAI port id to logical port id, and  *)
(*    the add / change / remove / delta operations.                        *)
(*  - BcmPort mirror binding (SaiPortManager.cpp:1017-1045).               *)
(*                                                                         *)
(* Optional values (a pointer that may be null, a folly::Optional) are     *)
(* sets with at most one element, or the string NoMirror for a name.       *)
(***************************************************************************)
EXTENDS Integers, Sequences, FiniteSets, TLC

VARIABLES
    handles_,        \* SaiPortManager::handles_ : PortID -> SaiPortHandle
    portIds,         \* ConcurrentIndices::portIds : PortSaiId -> PortID
    portStore,       \* SaiStore objects of SaiPortTraits
    bridgePortStore, \* bridge ports owned by SaiBridgeManager callers
    queueStore,      \* queues owned by SaiQueueManager callers
    pc,              \* position of the manager's single writer
    rmId,            \* the port a removePort in progress is removing
    lastCall,        \* the manager operation invoked last
    lastError,       \* what that operation threw ("none": it returned)
    delta,           \* the StateDelta processPortDelta is walking
    query,           \* a thread calling getPortHandle or getPortStats
    translated,      \* the attributesFromSwPort call made last, and its result
    ingressMirror_,  \* BcmPort::ingressMirror_
    egressMirror_,   \* BcmPort::egressMirror_
    mirrorTable,     \* BcmMirrorTable: names of the mirrors that exist
    attached,        \* hardware: sessions the port is attached to, per direction
    mpc,             \* position inside BcmPort::updateMirror
    mirrorCall,      \* the updateMirror call in progress or finished last
    mirrorLog,       \* mirror actions that call issued, in order
    mirrorError,     \* what that call threw; "CHECK": the process aborted
    dtor,            \* BcmPort::~BcmPort: the bindings it found, and its progress
    hw,              \* the ASIC's and the platform's state of the port
    transmitterTechnology_, \* BcmPort::transmitterTechnology_
    bcmCall,         \* the BcmPort operation called last, and what it did
    lastPortStats_,  \* BcmPort::lastPortStats_: the published BcmPortStats
    pollCall,        \* the updateStats call made last since reinitPortStats
    reader,          \* a thread reading the published statistics
    portName_,       \* BcmPort::portName_
    portCounters_,   \* BcmPort::portCounters_: stat key -> exported counter
    histograms,      \* BcmPort::outQueueLen_, inPktLengths_, outPktLengths_
    bus,             \* BaseWedgeI2CBus: selectedPort_ and the device calls made
    busCall          \* the BaseWedgeI2CBus operation called last

saiVars == <<handles_, portIds, portStore, bridgePortStore, queueStore,
             pc, rmId, lastCall, lastError, delta, query, translated>>
bcmMirrorVars == <<ingressMirror_, egressMirror_, mirrorTable, attached,
                   mpc, mirrorCall, mirrorLog, mirrorError>>
nameVars == <<portName_, portCounters_, histograms>>
statsVars == <<lastPortStats_, pollCall, reader, nameVars>>
bcmPortVars == <<dtor, hw, transmitterTechnology_, bcmCall, statsVars>>
busVars == <<bus, busCall>>
vars == <<saiVars, bcmMirrorVars, bcmPortVars, busVars>>

(***************************************************************************)
(* Bounds                                                                  *)
(***************************************************************************)
MaxPorts == 2
\* The largest value a raw counter is read with.
MaxCounter == 2
\* The latest time in seconds a poll is made at.
MaxTime == 2
\* The number of modules behind the I2C bus.
MaxModules == 2
\* The longest read the I2C bus is asked for.
MaxLen == 257
\* BaseWedgeI2CBus::NO_PORT: no module is selected.
NO_PORT == 0

PortIDs == 1..MaxPorts
\* Object ids the SAI adapter hands out: one per port plus one for the
\* object changePort creates while the old one is still referenced.
SaiIds == 1..(MaxPorts + 1)

(***************************************************************************)
(* Logical ports (state/Port.h as read by attributesFromSwPort)            *)
(***************************************************************************)
SwPort(id, adminState, speed, fec, loopbackMode, tx, rx, vlan, queues) ==
    [id |-> id, adminState |-> adminState, speed |-> speed, fec |-> fec,
     loopbackMode |-> loopbackMode, pause |-> [tx |-> tx, rx |-> rx],
     ingressVlan |-> vlan, portQueues |-> queues]

\* The configurations the operations are called with.
SwPortsOf(id) ==
    { SwPort(id, "ENABLED",  "TWENTYFIVEG", "OFF", "NONE", FALSE, FALSE, 1, {0}),
      SwPort(id, "ENABLED",  "HUNDREDG",    "ON",  "NONE", TRUE,  TRUE,  1, {0, 1}),
      SwPort(id, "DISABLED", "TWENTYFIVEG", "OFF", "MAC",  TRUE,  FALSE, 2, {}),
      SwPort(id, "ENABLED",  "XG",          "OFF", "PHY",  FALSE, TRUE,  2, {0}) }

SwPorts == UNION { SwPortsOf(id) : id \in PortIDs }

\* The configurations the snapshots of a delta hold.
DeltaPortsOf(id) ==
    { SwPort(id, "ENABLED", "TWENTYFIVEG", "OFF", "NONE", FALSE, FALSE, 1, {0}),
      SwPort(id, "ENABLED", "HUNDREDG",    "ON",  "NONE", TRUE,  TRUE,  1, {0, 1}) }

\* A port map of a switch state: port id -> port, for the ids it holds.
PortMaps ==
    UNION { { f \in [D -> UNION { DeltaPortsOf(i) : i \in D }] :
                \A i \in D : f[i].id = i } : D \in SUBSET PortIDs }

(***************************************************************************)
(* Platform                                                                *)
(***************************************************************************)
\* cfg::PortSpeed: the enumerators' values are the speed in Mbps.
PortSpeedValue(speed) ==
    CASE speed = "DEFAULT"     -> 0
      [] speed = "GIGE"        -> 1000
      [] speed = "XG"          -> 10000
      [] speed = "TWENTYG"     -> 20000
      [] speed = "TWENTYFIVEG" -> 25000
      [] speed = "FORTYG"      -> 40000
      [] speed = "FIFTYG"      -> 50000
      [] speed = "HUNDREDG"    -> 100000

\* PlatformPort::getHwPortLanes(speed): the lanes port id uses at that speed.
\* A port owns four consecutive lanes and uses all of them at 100G and 40G,
\* two at 50G, one otherwise.  A port id beyond MaxPorts is one the platform
\* gives the lanes of another port.
getHwPortLanes(id, speed) ==
    LET first == ((id - 1) % MaxPorts) * 4 + 1
        n == CASE speed \in {"HUNDREDG", "FORTYG"} -> 4
               [] speed = "FIFTYG" -> 2
               [] OTHER -> 1
    IN  [i \in 1..n |-> first + i - 1]

\* PlatformPort::getTransmitterTech()
getTransmitterTech(id) ==
    CASE id = 1 -> "COPPER"
      [] id = 2 -> "OPTICAL"
      [] OTHER  -> "UNKNOWN"

(***************************************************************************)
(* SaiPortManager::attributesFromSwPort                                    *)
(***************************************************************************)
\* attributesFromSwPort with the two one-sided pause modes exchanged.
attributesFromSwPort_pauseExchanged(swPort) ==
    LET adminState == CASE swPort.adminState = "DISABLED" -> FALSE
                        [] swPort.adminState = "ENABLED"  -> TRUE
                        [] OTHER -> FALSE
        speed == CASE swPort.speed = "TWENTYFIVEG" -> PortSpeedValue(swPort.speed)
                   [] swPort.speed = "HUNDREDG"    -> PortSpeedValue(swPort.speed)
                   [] OTHER -> 0
        hwLaneList == getHwPortLanes(swPort.id, swPort.speed)
        fecMode == IF swPort.fec = "ON" THEN "SAI_PORT_FEC_MODE_RS"
                   ELSE "SAI_PORT_FEC_MODE_NONE"
        globalFlowControlMode ==
            IF swPort.pause.tx /\ swPort.pause.rx
              THEN "SAI_PORT_FLOW_CONTROL_MODE_BOTH_ENABLE"
            ELSE IF swPort.pause.tx THEN "SAI_PORT_FLOW_CONTROL_MODE_RX_ONLY"
            ELSE IF swPort.pause.rx THEN "SAI_PORT_FLOW_CONTROL_MODE_TX_ONLY"
            ELSE "SAI_PORT_FLOW_CONTROL_MODE_DISABLE"
        internalLoopbackMode ==
            CASE swPort.loopbackMode = "NONE" -> "SAI_PORT_INTERNAL_LOOPBACK_MODE_NONE"
              [] swPort.loopbackMode = "PHY" -> "SAI_PORT_INTERNAL_LOOPBACK_MODE_PHY"
              [] swPort.loopbackMode = "MAC" -> "SAI_PORT_INTERNAL_LOOPBACK_MODE_MAC"
              [] OTHER -> "SAI_PORT_INTERNAL_LOOPBACK_MODE_NONE"
        mediaType ==
            CASE getTransmitterTech(swPort.id) = "COPPER" -> "SAI_PORT_MEDIA_TYPE_COPPER"
              [] getTransmitterTech(swPort.id) = "OPTICAL" -> "SAI_PORT_MEDIA_TYPE_FIBER"
              [] OTHER -> "SAI_PORT_MEDIA_TYPE_UNKNOWN"
    IN  [hwLaneList |-> hwLaneList, speed |-> speed, adminState |-> adminState,
         fecMode |-> fecMode, internalLoopbackMode |-> internalLoopbackMode,
         mediaType |-> mediaType, globalFlowControlMode |-> globalFlowControlMode,
         vlanId |-> swPort.ingressVlan]

attributesFromSwPort(swPort) ==
    LET adminState == CASE swPort.adminState = "DISABLED" -> FALSE
                        [] swPort.adminState = "ENABLED"  -> TRUE
                        [] OTHER -> FALSE
        speed == CASE swPort.speed = "TWENTYFIVEG" -> PortSpeedValue(swPort.speed)
                   [] swPort.speed = "HUNDREDG"    -> PortSpeedValue(swPort.speed)
                   [] OTHER -> 0
        hwLaneList == getHwPortLanes(swPort.id, swPort.speed)
        fecMode == IF swPort.fec = "ON" THEN "SAI_PORT_FEC_MODE_RS"
                   ELSE "SAI_PORT_FEC_MODE_NONE"
        globalFlowControlMode ==
            IF swPort.pause.tx /\ swPort.pause.rx
              THEN "SAI_PORT_FLOW_CONTROL_MODE_BOTH_ENABLE"
            ELSE IF swPort.pause.tx THEN "SAI_PORT_FLOW_CONTROL_MODE_TX_ONLY"
            ELSE IF swPort.pause.rx THEN "SAI_PORT_FLOW_CONTROL_MODE_RX_ONLY"
            ELSE "SAI_PORT_FLOW_CONTROL_MODE_DISABLE"
        internalLoopbackMode ==
            CASE swPort.loopbackMode = "NONE" -> "SAI_PORT_INTERNAL_LOOPBACK_MODE_NONE"
              [] swPort.loopbackMode = "PHY" -> "SAI_PORT_INTERNAL_LOOPBACK_MODE_PHY"
              [] swPort.loopbackMode = "MAC" -> "SAI_PORT_INTERNAL_LOOPBACK_MODE_MAC"
              [] OTHER -> "SAI_PORT_INTERNAL_LOOPBACK_MODE_NONE"
        mediaType ==
            CASE getTransmitterTech(swPort.id) = "COPPER" -> "SAI_PORT_MEDIA_TYPE_COPPER"
              [] getTransmitterTech(swPort.id) = "OPTICAL" -> "SAI_PORT_MEDIA_TYPE_FIBER"
              [] OTHER -> "SAI_PORT_MEDIA_TYPE_UNKNOWN"
    IN  [hwLaneList |-> hwLaneList, speed |-> speed, adminState |-> adminState,
         fecMode |-> fecMode, internalLoopbackMode |-> internalLoopbackMode,
         mediaType |-> mediaType, globalFlowControlMode |-> globalFlowControlMode,
         vlanId |-> swPort.ingressVlan]

(***************************************************************************)
(* Hardware statistics (HwPortStats of hardware_stats.thrift)              *)
(***************************************************************************)
\* hardware_stats_constants::STAT_UNINITIALIZED(): what a counter holds until
\* it has been collected.  updateStats tells it apart from every collected
\* value, 0 included ("Init current port stats from prev value or 0").
STAT_UNINITIALIZED == -1

\* The scalar counters of a HwPortStats, as updateStats fills them.
CounterNames ==
    {"inBytes_", "inUnicastPkts_", "inMulticastPkts_", "inBroadcastPkts_",
     "inDiscards_", "inErrors_", "inIpv4HdrErrors_", "inIpv6HdrErrors_",
     "inPause_", "inNonPauseDiscards_",
     "outBytes_", "outUnicastPkts_", "outMulticastPkts_", "outBroadcastPkts_",
     "outDiscards_", "outErrors_", "outPause_"}

\* A default-constructed HwPortStats: no counter collected, no queue.
HwPortStats ==
    [c \in CounterNames |-> STAT_UNINITIALIZED]
      @@ [queueOutDiscardBytes_ |-> << >>, queueOutBytes_ |-> << >>]

(***************************************************************************)
(* SaiStore: reference-counted objects keyed by their adapter host key     *)
(***************************************************************************)
EmptyMap == [x \in {} |-> x]

\* The id the adapter gives the next object it creates.
FreshSaiId(store) ==
    CHOOSE i \in SaiIds \ DOMAIN store :
        \A j \in SaiIds \ DOMAIN store : i <= j

objectsWithKey(store, key) ==
    { i \in DOMAIN store : store[i].adapterHostKey = key }

\* SaiObjectStore::setObject(key, attributes): the object of that key with the
\* attributes set, created when the store holds none; the caller gets a
\* shared reference to it.
setObject(store, key, attributes) ==
    IF objectsWithKey(store, key) # {}
      THEN LET i == CHOOSE i \in objectsWithKey(store, key) : TRUE
           IN  [store |-> [store EXCEPT ![i].attributes = attributes,
                                        ![i].refs = @ + 1],
                adapterKey |-> i]
      ELSE LET i == FreshSaiId(store)
           IN  [store |-> store @@ (i :> [adapterHostKey |-> key,
                                         attributes |-> attributes,
                                         refs |-> 1]),
                adapterKey |-> i]

\* A shared reference to object k goes away; the last one removes the object.
releaseObject(store, k) ==
    IF store[k].refs > 1
      THEN [store EXCEPT ![k].refs = @ - 1]
      ELSE [j \in DOMAIN store \ {k} |-> store[j]]

\* Bridge ports and queues: key -> number of references held.
acquireAll(store, keys) ==
    [k \in DOMAIN store \cup keys |->
        (IF k \in DOMAIN store THEN store[k] ELSE 0) + (IF k \in keys THEN 1 ELSE 0)]

releaseAll(store, keys) ==
    LET left == [k \in DOMAIN store |-> store[k] - (IF k \in keys THEN 1 ELSE 0)]
    IN  [k \in { j \in DOMAIN store : left[j] > 0 } |-> left[k]]

\* SaiBridgeManager::addBridgePort(portSaiId)
addBridgePort(store, portSaiId) == acquireAll(store, {portSaiId})

queueKeys(portSaiId, portQueues) == { <<portSaiId, q>> : q \in portQueues }

\* SaiQueueManager::createQueues(portSaiId, portQueues)
createQueues(store, portSaiId, portQueues) ==
    acquireAll(store, queueKeys(portSaiId, portQueues))

(***************************************************************************)
(* SaiPortManager                                                          *)
(***************************************************************************)
\* An entry of handles_: the key and the SaiPortHandle it maps to.
SaiPortHandle(id, port, bridgePort, queues) ==
    [id |-> id, port |-> port, bridgePort |-> bridgePort, queues |-> queues,
     lastCollectedStats |-> HwPortStats]

\* getPortHandleImpl: the handle of swId, or none (a null pointer).
getPortHandleImpl(swId) == { h \in handles_ : h.id = swId }

getPortHandle(swId) == getPortHandleImpl(swId)

\* getPortStats(): port id -> lastCollectedStats, for every handle.
getPortStats ==
    [id \in { h.id : h \in handles_ } |->
        (CHOOSE h \in handles_ : h.id = id).lastCollectedStats]

\* std::unordered_map::emplace: inserts unless the key is present.
emplace(map, key, value) ==
    IF key \in DOMAIN map THEN map ELSE map @@ (key :> value)

erase(map, key) == [k \in DOMAIN map \ {key} |-> map[k]]

\* The operation throws: nothing it owns was changed.
throw(error) ==
    /\ lastError' = error
    /\ UNCHANGED <<handles_, portIds, portStore, bridgePortStore, queueStore,
                   pc, rmId>>

\* addPort, lines 43-56, with the handle emplaced before its sub-resources
\* exist: a failure leaves a half-built handle in the registry.
addPortNew_registerFirst(swPort) ==
    \E failAt \in {"none", "setObject", "addBridgePort", "createQueues"} :
      LET attributes == attributesFromSwPort(swPort)
          set == setObject(portStore, attributes.hwLaneList, attributes)
          saiPort == set.adapterKey
      IN  IF failAt = "setObject"
            THEN throw("BackendRejected")
            ELSE /\ portStore' = set.store
                 /\ portIds' = emplace(portIds, saiPort, swPort.id)
                 /\ UNCHANGED <<pc, rmId>>
                 /\ IF failAt = "none"
                      THEN /\ bridgePortStore' =
                                addBridgePort(bridgePortStore, saiPort)
                           /\ queueStore' = createQueues(queueStore, saiPort,
                                                         swPort.portQueues)
                           /\ handles_' = handles_ \cup
                                {SaiPortHandle(swPort.id, saiPort, {saiPort},
                                               swPort.portQueues)}
                           /\ lastError' = "none"
                      ELSE /\ handles_' = handles_ \cup
                                {SaiPortHandle(swPort.id, saiPort, {}, {})}
                           /\ lastError' = "BackendRejected"
                           /\ UNCHANGED <<bridgePortStore, queueStore>>

\* addPort, lines 43-56, without the emplace into handles_.
addPortNew_notRegistered(swPort) ==
    LET attributes == attributesFromSwPort(swPort)
        set == setObject(portStore, attributes.hwLaneList, attributes)
    IN  /\ portStore' = releaseObject(set.store, set.adapterKey)
        /\ lastError' = "none"
        /\ UNCHANGED <<handles_, portIds, bridgePortStore, queueStore, pc, rmId>>

\* addPort, lines 43-56: the port has no handle yet.
addPortNew(swPort) ==
    \E failAt \in {"none", "setObject", "addBridgePort", "createQueues"} :
      LET attributes == attributesFromSwPort(swPort)
          portKey == attributes.hwLaneList
          set == setObject(portStore, portKey, attributes)
          saiPort == set.adapterKey
          handle == SaiPortHandle(swPort.id, saiPort, {saiPort},
                                  swPort.portQueues)
      IN  CASE failAt = "setObject" -> throw("BackendRejected")
            [] failAt \in {"addBridgePort", "createQueues"} ->
                 \* the exception destroys the local handle
                 /\ portStore' = releaseObject(set.store, saiPort)
                 /\ lastError' = "BackendRejected"
                 /\ UNCHANGED <<handles_, portIds, bridgePortStore,
                                queueStore, pc, rmId>>
            [] OTHER ->
                 /\ portStore' = set.store
                 /\ bridgePortStore' = addBridgePort(bridgePortStore, saiPort)
                 /\ queueStore' = createQueues(queueStore, saiPort,
                                               swPort.portQueues)
                 /\ handles_' = handles_ \cup {handle}
                 /\ portIds' = emplace(portIds, saiPort, swPort.id)
                 /\ lastError' = "none"
                 /\ UNCHANGED <<pc, rmId>>

\* addPort without the check of lines 35-42.
addPort_noDuplicateCheck(swPort) == addPortNew(swPort)

addPort(swPort) ==
    IF getPortHandle(swPort.id) # {}
      THEN throw("DuplicateResource")
      ELSE addPortNew(swPort)

\* changePort, lines 73-78: the port has a handle.
changePortExisting(swPort) ==
    \E failAt \in {"none", "setObject", "createQueues"} :
      LET existingPort == CHOOSE h \in getPortHandle(swPort.id) : TRUE
          attributes == attributesFromSwPort(swPort)
          portKey == attributes.hwLaneList
          set == setObject(portStore, portKey, attributes)
          \* the reference setObject returns is dropped at the end of the
          \* statement
          dropped == releaseObject(set.store, set.adapterKey)
          newQueues == createQueues(queueStore, existingPort.port,
                                    swPort.portQueues)
      IN  CASE failAt = "setObject" -> throw("BackendRejected")
            [] failAt = "createQueues" ->
                 /\ portStore' = dropped
                 /\ lastError' = "BackendRejected"
                 /\ UNCHANGED <<handles_, portIds, bridgePortStore,
                                queueStore, pc, rmId>>
            [] OTHER ->
                 /\ portStore' = dropped
                 /\ queueStore' =
                      releaseAll(newQueues,
                                 queueKeys(existingPort.port, existingPort.queues))
                 /\ handles_' = (handles_ \ {existingPort}) \cup
                      {[existingPort EXCEPT !.queues = swPort.portQueues]}
                 /\ lastError' = "none"
                 /\ UNCHANGED <<portIds, bridgePortStore, pc, rmId>>

\* changePort that adds the port it does not find.
changePort_upsert(swPort) ==
    IF getPortHandle(swPort.id) = {}
      THEN addPortNew(swPort)
      ELSE changePortExisting(swPort)

changePort(swPort) ==
    IF getPortHandle(swPort.id) = {}
      THEN throw("MissingResource")
      ELSE changePortExisting(swPort)

\* removePort, lines 64-65 in the other order: the handle is destroyed while
\* the reverse index still holds its port.
removePortFound_handleFirst(swId) ==
    LET itr == CHOOSE h \in getPortHandle(swId) : TRUE
    IN  /\ handles_' = handles_ \ {itr}
        /\ queueStore' = releaseAll(queueStore, queueKeys(itr.port, itr.queues))
        /\ bridgePortStore' = releaseAll(bridgePortStore, itr.bridgePort)
        /\ portStore' = releaseObject(portStore, itr.port)
        /\ pc' = "removePort_erase_index"
        /\ rmId' = swId
        /\ lastError' = "none"
        /\ UNCHANGED portIds

\* removePort, line 64: the port leaves the reverse index; the handle is
\* still in handles_.
removePortFound(swId) ==
    LET itr == CHOOSE h \in getPortHandle(swId) : TRUE
    IN  /\ portIds' = erase(portIds, itr.port)
        /\ pc' = "removePort_erase_handle"
        /\ rmId' = swId
        /\ lastError' = "none"
        /\ UNCHANGED <<handles_, portStore, bridgePortStore, queueStore>>

\* removePort that returns silently when it does not find the port.
removePort_silent(swId) ==
    IF getPortHandle(swId) = {}
      THEN /\ lastError' = "none"
           /\ UNCHANGED <<handles_, portIds, portStore, bridgePortStore,
                          queueStore, pc, rmId>>
      ELSE removePortFound(swId)

\* removePort, lines 60-64: the lookup, then the erase from the reverse index.
removePort(swId) ==
    IF getPortHandle(swId) = {}
      THEN throw("MissingResource")
      ELSE removePortFound(swId)

\* removePort, line 65: handles_.erase(itr) destroys the handle, which gives
\* up its queues, its bridge port and its port.
removePortEraseHandle ==
    /\ pc = "removePort_erase_handle"
    /\ LET itr == CHOOSE h \in getPortHandle(rmId) : TRUE
       IN  /\ handles_' = handles_ \ {itr}
           /\ queueStore' = releaseAll(queueStore, queueKeys(itr.port, itr.queues))
           /\ bridgePortStore' = releaseAll(bridgePortStore, itr.bridgePort)
           /\ portStore' = releaseObject(portStore, itr.port)
    /\ pc' = "idle"
    /\ UNCHANGED <<portIds, rmId, lastError>>

(***************************************************************************)
(* Calls of the manager's operations                                       *)
(***************************************************************************)
Call(op, id, swPort) == [op |-> op, id |-> id, swPort |-> swPort]

\* No call is in progress: the writer is between two operations.
Idle == pc = "idle" /\ ~delta.active

AddPort ==
    /\ Idle
    /\ \E swPort \in SwPorts :
         /\ addPort(swPort)
         /\ lastCall' = Call("addPort", swPort.id, {swPort})
    /\ UNCHANGED <<delta, query, translated, bcmMirrorVars, bcmPortVars, busVars>>

ChangePort ==
    /\ Idle
    /\ \E swPort \in SwPorts :
         /\ changePort(swPort)
         /\ lastCall' = Call("changePort", swPort.id, {swPort})
    /\ UNCHANGED <<delta, query, translated, bcmMirrorVars, bcmPortVars, busVars>>

RemovePort ==
    /\ Idle
    /\ \E swId \in PortIDs :
         /\ removePort(swId)
         /\ lastCall' = Call("removePort", swId, {})
    /\ UNCHANGED <<delta, query, translated, bcmMirrorVars, bcmPortVars, busVars>>

RemovePortEraseHandle ==
    /\ removePortEraseHandle
    /\ UNCHANGED <<lastCall, delta, query, translated, bcmMirrorVars, bcmPortVars, busVars>>

(***************************************************************************)
(* Queries from another thread                                             *)
(***************************************************************************)
\* No query has been made.
NoQuery == [pc |-> "idle", op |-> "none", id |-> 0, pending |-> {},
            read |-> "none", outcome |-> "none"]

\* What dereferencing a SaiPortHandle gives: the handle's value while it is
\* in handles_; once handles_.erase has destroyed it the behaviour is
\* undefined, and the read gives the old value, another value, or a fault.
Dereference(swId) ==
    IF getPortHandle(swId) = {}
      THEN { [read |-> "released", outcome |-> o]
               : o \in {"stale", "garbage", "fault"} }
      ELSE { [read |-> "handle", outcome |-> "value"] }

\* getPortHandle(swId) called from a thread other than the writer's: the
\* find in handles_, with no lock; the caller gets a raw pointer or nullptr.
QueryGetPortHandle ==
    /\ query.pc \in {"idle", "done"}
    /\ \E swId \in PortIDs :
         query' = IF getPortHandle(swId) = {}
                    THEN [NoQuery EXCEPT !.pc = "done", !.op = "getPortHandle",
                                         !.id = swId, !.read = "nullptr"]
                    ELSE [NoQuery EXCEPT !.pc = "handle",
                                         !.op = "getPortHandle", !.id = swId]
    /\ UNCHANGED <<handles_, portIds, portStore, bridgePortStore, queueStore,
                   pc, rmId, lastCall, lastError, delta, translated,
                   bcmMirrorVars, bcmPortVars, busVars>>

\* The caller of getPortHandle reads through the pointer it was given.
QueryUseHandle ==
    /\ query.pc = "handle"
    /\ \E d \in Dereference(query.id) :
         query' = [query EXCEPT !.pc = "done", !.read = d.read,
                                !.outcome = d.outcome]
    /\ UNCHANGED <<handles_, portIds, portStore, bridgePortStore, queueStore,
                   pc, rmId, lastCall, lastError, delta, translated,
                   bcmMirrorVars, bcmPortVars, busVars>>

\* getPortStats() called from a thread other than the writer's: the range
\* for over handles_ begins, with no lock.
QueryGetPortStats ==
    /\ query.pc \in {"idle", "done"}
    /\ LET ids == { h.id : h \in handles_ }
       IN  query' = [NoQuery EXCEPT !.pc = IF ids = {} THEN "done"
                                                       ELSE "iterating",
                                    !.op = "getPortStats", !.pending = ids]
    /\ UNCHANGED <<handles_, portIds, portStore, bridgePortStore, queueStore,
                   pc, rmId, lastCall, lastError, delta, translated,
                   bcmMirrorVars, bcmPortVars, busVars>>

\* getPortStats(), one turn of the loop: handle->lastCollectedStats of the
\* entry the iterator is at.
QueryGetPortStatsNext ==
    /\ query.pc = "iterating"
    /\ \E swId \in query.pending : \E d \in Dereference(swId) :
         query' = [query EXCEPT
                     !.pc = IF query.pending = {swId} \/ d.read = "released"
                              THEN "done" ELSE "iterating",
                     !.id = swId, !.pending = @ \ {swId},
                     !.read = d.read, !.outcome = d.outcome]
    /\ UNCHANGED <<handles_, portIds, portStore, bridgePortStore, queueStore,
                   pc, rmId, lastCall, lastError, delta, translated,
                   bcmMirrorVars, bcmPortVars, busVars>>

\* No attributesFromSwPort call has been made.
NoTranslation == [swPort |-> {}, attributes |-> {}, again |-> FALSE]

\* attributesFromSwPort called for any port, the writer being between two
\* operations: a const member function, which reads the port and the
\* platform and returns the attributes.
AttributesFromSwPort ==
    /\ Idle
    /\ \E swPort \in SwPorts :
         translated' = [swPort |-> {swPort},
                        attributes |-> {attributesFromSwPort(swPort)},
                        again |-> translated.swPort = {swPort}]
    /\ UNCHANGED <<handles_, portIds, portStore, bridgePortStore, queueStore,
                   pc, rmId, lastCall, lastError, delta, query,
                   bcmMirrorVars, bcmPortVars, busVars>>

\* The configuration the writer uses while queries are followed.
QuerySwPorts ==
    { SwPort(id, "ENABLED", "TWENTYFIVEG", "OFF", "NONE", FALSE, FALSE, 1, {0})
        : id \in PortIDs }

QueryAddPort == AddPort /\ lastCall'.swPort \subseteq QuerySwPorts

QueryChangePort == ChangePort /\ lastCall'.swPort \subseteq QuerySwPorts

\* A port the platform gives the lanes of port 1, and its configuration.
AliasPortID == MaxPorts + 1

AliasSwPorts ==
    { SwPort(AliasPortID, "ENABLED", "TWENTYFIVEG", "OFF", "NONE",
             FALSE, FALSE, 1, {0}) }

AddAliasPort ==
    /\ Idle
    /\ \E swPort \in AliasSwPorts :
         /\ addPort(swPort)
         /\ lastCall' = Call("addPort", swPort.id, {swPort})
    /\ UNCHANGED <<delta, query, translated, bcmMirrorVars, bcmPortVars,
                   busVars>>

RemoveAliasPort ==
    /\ Idle
    /\ removePort(AliasPortID)
    /\ lastCall' = Call("removePort", AliasPortID, {})
    /\ UNCHANGED <<delta, query, translated, bcmMirrorVars, bcmPortVars,
                   busVars>>

(***************************************************************************)
(* processPortDelta                                                        *)
(***************************************************************************)
\* DeltaFunctions::forEachChanged over the ports delta: how it sees port id.
isAdded(old, new, id) == id \notin DOMAIN old /\ id \in DOMAIN new
isRemoved(old, new, id) == id \in DOMAIN old /\ id \notin DOMAIN new
isChanged(old, new, id) ==
    id \in DOMAIN old /\ id \in DOMAIN new /\ old[id] # new[id]
isUnchanged(old, new, id) ==
    id \in DOMAIN old /\ id \in DOMAIN new /\ old[id] = new[id]

classify(old, new, id) ==
    CASE isAdded(old, new, id)   -> "added"
      [] isRemoved(old, new, id) -> "removed"
      [] isChanged(old, new, id) -> "changed"
      [] OTHER                   -> "unchanged"

\* The lambdas processPortDelta hands to forEachChanged.
processChanged(oldPort, newPort) ==
    /\ changePort(newPort)
    /\ lastCall' = Call("changePort", newPort.id, {newPort})

\* processAdded handing the new port to changePort.
processAdded_callsChange(newPort) ==
    /\ changePort(newPort)
    /\ lastCall' = Call("changePort", newPort.id, {newPort})

processAdded(newPort) ==
    /\ addPort(newPort)
    /\ lastCall' = Call("addPort", newPort.id, {newPort})

processRemoved(oldPort) ==
    /\ removePort(oldPort.id)
    /\ lastCall' = Call("removePort", oldPort.id, {})

NoDelta ==
    [active |-> FALSE, started |-> FALSE, aborted |-> FALSE,
     old |-> EmptyMap, new |-> EmptyMap, todo |-> {}, calls |-> << >>]

\* processPortDelta is entered with a delta between two port maps.
ProcessPortDelta ==
    /\ Idle
    /\ \E old \in PortMaps, new \in PortMaps :
         LET ids == DOMAIN old \cup DOMAIN new
         IN  delta' = [active |-> ids # {}, started |-> TRUE, aborted |-> FALSE,
                       old |-> old, new |-> new, todo |-> ids, calls |-> << >>]
    /\ UNCHANGED <<handles_, portIds, portStore, bridgePortStore, queueStore,
                   pc, rmId, lastCall, lastError, query, translated, bcmMirrorVars,
                   bcmPortVars, busVars>>

\* forEachChanged visits the next port, in key order; an exception thrown by
\* the operation it calls leaves processPortDelta.
ProcessPortDeltaStep ==
    /\ pc = "idle"
    /\ delta.active
    /\ LET id == CHOOSE i \in delta.todo : \A j \in delta.todo : i <= j
           rest == delta.todo \ {id}
           cls == classify(delta.old, delta.new, id)
       IN  IF cls = "unchanged"
             THEN /\ delta' = [delta EXCEPT !.todo = rest, !.active = rest # {}]
                  /\ UNCHANGED <<handles_, portIds, portStore, bridgePortStore,
                                 queueStore, pc, rmId, lastCall, lastError>>
             ELSE /\ CASE cls = "added" -> processAdded(delta.new[id])
                       [] cls = "changed" ->
                            processChanged(delta.old[id], delta.new[id])
                       [] OTHER -> processRemoved(delta.old[id])
                  /\ delta' = [delta EXCEPT
                        !.todo = rest,
                        !.calls = Append(@, <<lastCall'.op, lastCall'.id>>),
                        !.active = rest # {} /\ lastError' = "none",
                        !.aborted = lastError' # "none"]
    /\ UNCHANGED <<query, translated, bcmMirrorVars, bcmPortVars, busVars>>

(***************************************************************************)
(* BcmPort: mirror binding                                                 *)
(***************************************************************************)
NoMirror == "none"
MirrorNames == {"A", "B", "C"}
Directions == {"INGRESS", "EGRESS"}

MirrorAction(action, mirrorName, direction) ==
    [action |-> action, mirror |-> mirrorName, direction |-> direction]

\* BcmMirror::applyPortMirrorAction on the hardware: START attaches the port
\* to the session in that direction, STOP detaches it.
applyPortMirrorAction(att, mirrorName, action, direction) ==
    IF action = "START"
      THEN [att EXCEPT ![direction] = @ \cup {mirrorName}]
      ELSE [att EXCEPT ![direction] = @ \ {mirrorName}]

\* Whether the hardware can reject the action: one that changes nothing (a
\* STOP of a session the port is not attached to, a START of the session it
\* is attached to) succeeds; any other may be rejected.
mirrorActionOutcomes(att, mirrorName, action, direction) ==
    IF applyPortMirrorAction(att, mirrorName, action, direction) = att
      THEN {TRUE} ELSE BOOLEAN

\* BcmPort::applyMirrorAction, called with the actions log issued so far in
\* the running operation; next is where the caller goes on when it returns,
\* thrown where an exception it throws leaves the caller.
\* It returns at once without a name, aborts the process when the mirror
\* table has no such mirror (CHECK), and throws when the hardware rejects the
\* action.
applyMirrorAction(mirrorName, action, direction, log, next, thrown) ==
    IF mirrorName = NoMirror
      THEN /\ mpc' = next
           /\ mirrorLog' = log
           /\ mirrorError' = "none"
           /\ UNCHANGED attached
    ELSE IF mirrorName \notin mirrorTable
      THEN /\ mpc' = "aborted"
           /\ mirrorLog' = log
           /\ mirrorError' = "CHECK"
           /\ UNCHANGED attached
    ELSE /\ mirrorLog' = Append(log, MirrorAction(action, mirrorName, direction))
         /\ \E ok \in mirrorActionOutcomes(attached, mirrorName, action, direction) :
              IF ok
                THEN /\ attached' = applyPortMirrorAction(attached, mirrorName,
                                                          action, direction)
                     /\ mpc' = next
                     /\ mirrorError' = "none"
                ELSE /\ mpc' = thrown
                     /\ mirrorError' = "BackendRejected"
                     /\ UNCHANGED attached

boundMirror(direction) ==
    IF direction = "INGRESS" THEN ingressMirror_ ELSE egressMirror_

\* updateMirror without the STOP of lines 1032-1035.
updateMirrorStop_noStop(swMirrorName, direction) ==
    /\ mirrorCall' = [called |-> TRUE, swMirrorName |-> swMirrorName,
                      direction |-> direction,
                      previous |-> boundMirror(direction)]
    /\ mpc' = "set"
    /\ mirrorLog' = << >>
    /\ mirrorError' = "none"
    /\ UNCHANGED <<ingressMirror_, egressMirror_, mirrorTable, attached>>

\* updateMirror with the STOP issued against the new name, as when the
\* member is assigned before the STOP.
updateMirrorStop_stopsNew(swMirrorName, direction) ==
    /\ mirrorCall' = [called |-> TRUE, swMirrorName |-> swMirrorName,
                      direction |-> direction,
                      previous |-> boundMirror(direction)]
    /\ applyMirrorAction(swMirrorName, "STOP", direction, << >>, "set", "idle")
    /\ UNCHANGED <<ingressMirror_, egressMirror_, mirrorTable>>

\* updateMirror, lines 1032-1035: STOP against the mirror bound so far.
updateMirrorStop(swMirrorName, direction) ==
    /\ mirrorCall' = [called |-> TRUE, swMirrorName |-> swMirrorName,
                      direction |-> direction,
                      previous |-> boundMirror(direction)]
    /\ applyMirrorAction(boundMirror(direction), "STOP", direction, << >>,
                         "set", "idle")
    /\ UNCHANGED <<ingressMirror_, egressMirror_, mirrorTable>>

\* updateMirror, lines 1036-1040: the new name is recorded.
updateMirrorSet ==
    /\ IF mirrorCall.direction = "INGRESS"
         THEN /\ ingressMirror_' = mirrorCall.swMirrorName
              /\ UNCHANGED egressMirror_
         ELSE /\ egressMirror_' = mirrorCall.swMirrorName
              /\ UNCHANGED ingressMirror_
    /\ mpc' = "start"
    /\ UNCHANGED <<mirrorTable, attached, mirrorCall, mirrorLog, mirrorError>>

\* updateMirror, lines 1041-1044: START against the mirror bound now.
updateMirrorStart ==
    /\ applyMirrorAction(boundMirror(mirrorCall.direction), "START",
                         mirrorCall.direction, mirrorLog, "idle", "idle")
    /\ UNCHANGED <<ingressMirror_, egressMirror_, mirrorTable, mirrorCall>>

UpdateMirrorStop ==
    /\ mpc = "idle"
    /\ \E swMirrorName \in MirrorNames \cup {NoMirror}, direction \in Directions :
         updateMirrorStop(swMirrorName, direction)
    /\ UNCHANGED <<saiVars, bcmPortVars, busVars>>

UpdateMirrorSet ==
    /\ mpc = "set"
    /\ updateMirrorSet
    /\ UNCHANGED <<saiVars, bcmPortVars, busVars>>

UpdateMirrorStart ==
    /\ mpc = "start"
    /\ updateMirrorStart
    /\ UNCHANGED <<saiVars, bcmPortVars, busVars>>

\* BcmMirrorTable: a mirror is added to, or deleted from, the table by the
\* thread that also programs the ports.
MirrorAdded ==
    /\ mpc = "idle"
    /\ \E name \in MirrorNames \ mirrorTable : mirrorTable' = mirrorTable \cup {name}
    /\ UNCHANGED <<ingressMirror_, egressMirror_, attached, mpc, mirrorCall,
                   mirrorLog, mirrorError, saiVars, bcmPortVars, busVars>>

MirrorDeleted ==
    /\ mpc = "idle"
    /\ \E name \in mirrorTable : mirrorTable' = mirrorTable \ {name}
    /\ UNCHANGED <<ingressMirror_, egressMirror_, attached, mpc, mirrorCall,
                   mirrorLog, mirrorError, saiVars, bcmPortVars, busVars>>

(***************************************************************************)
(* BcmPort: programming the port                                           *)
(***************************************************************************)
\* Logical ports as BcmPort reads them: Port::getName, getAdminState,
\* getOperState, getSpeed, getIngressVlan, getVlans, getIngressMirror and
\* getEgressMirror.
BcmSwPort(name, adminState, operState, speed, ingressVlan, vlans, ingressMirror, egressMirror) ==
    [name |-> name, adminState |-> adminState, operState |-> operState,
     speed |-> speed, ingressVlan |-> ingressVlan, vlans |-> vlans,
     ingressMirror |-> ingressMirror, egressMirror |-> egressMirror]

\* The configurations BcmPort's operations are called with.
BcmSwPorts ==
    { BcmSwPort("eth1/1/1", "ENABLED",  "UP",   "TWENTYFIVEG", 2, {1, 2}, NoMirror, NoMirror),
      BcmSwPort("eth1/1/1", "ENABLED",  "DOWN", "TWENTYFIVEG", 2, {1, 2}, "A",      NoMirror),
      BcmSwPort("eth1/1/1", "ENABLED",  "UP",   "DEFAULT",     2, {1, 2}, NoMirror, NoMirror),
      BcmSwPort("eth1/1/1", "DISABLED", "DOWN", "TWENTYFIVEG", 2, {1, 2}, NoMirror, "B") }

\* Port::isPortUp(): false for a port that is down or disabled.
isPortUp(swPort) == swPort.adminState = "ENABLED" /\ swPort.operState = "UP"

\* No name is taken for the name of a backplane port.
isFabricName_never(name) == FALSE

\* name.find("fab") == 0
isFabricName(name) == name \in {"fab1/1/1"}

TransmitterTechnologies == {"UNKNOWN", "COPPER", "OPTICAL"}

kPortTypeMapping ==
    [HUNDREDG    |-> [COPPER |-> "CR4", OPTICAL |-> "CAUI", UNKNOWN |-> "CAUI"],
     FIFTYG      |-> [COPPER |-> "CR2", OPTICAL |-> "CAUI", UNKNOWN |-> "CR2"],
     FORTYG      |-> [COPPER |-> "CR4", OPTICAL |-> "XLAUI", UNKNOWN |-> "XLAUI"],
     TWENTYFIVEG |-> [COPPER |-> "CR", OPTICAL |-> "CAUI", UNKNOWN |-> "CR"],
     TWENTYG     |-> [COPPER |-> "CR", UNKNOWN |-> "CR"],
     XG          |-> [COPPER |-> "CR", OPTICAL |-> "SFI", UNKNOWN |-> "CR"],
     GIGE        |-> [COPPER |-> "GMII", UNKNOWN |-> "GMII"]]

Range(f) == { f[i] : i \in DOMAIN f }

\* The state an operation runs on: the hardware, the members of the port,
\* the calls made so far and the exception in flight.
BcmState(h, tech, ingress, egress, att) ==
    [hw |-> h, transmitterTechnology_ |-> tech, ingressMirror_ |-> ingress,
     egressMirror_ |-> egress, attached |-> att, log |-> << >>,
     error |-> "none"]

\* The value of an expression that has one: TheOne({ F(x) : x \in {e} }) is
\* F(e) with e evaluated once.
TheOne(S) == CHOOSE x \in S : TRUE

\* One call to the SDK followed by bcmCheckError: the call named fail
\* returns an error and changes nothing, any other sets the fields of the
\* hardware that set names.  Nothing is called while an exception is in
\* flight.
opennsl(st, fail, call, set) ==
    TheOne({ IF s.error # "none" THEN s
             ELSE IF call = fail
               THEN [s EXCEPT !.log = Append(@, call), !.error = "BcmError"]
             ELSE [s EXCEPT !.log = Append(@, call),
                            !.hw = [f \in DOMAIN s.hw |->
                                      IF f \in DOMAIN set THEN set[f]
                                                          ELSE s.hw[f]]]
             : s \in {st} })

\* A call that only reads.
Get == [f \in {} |-> {}]

\* BcmPort::isEnabled
isEnabled(st, fail) ==
    TheOne({ [st |-> r, value |-> r.hw.enabled]
             : r \in {opennsl(st, fail, "port_enable_get", Get)} })

\* BcmPort::setIngressVlan
setIngressVlan(st, swPort, fail) ==
    TheOne({ LET currVlan == r.hw.untaggedVlan
                 bcmVlan == swPort.ingressVlan
             IN  IF bcmVlan # currVlan
                   THEN opennsl(r, fail, "port_untagged_vlan_set",
                                [untaggedVlan |-> bcmVlan])
                   ELSE r
             : r \in {opennsl(st, fail, "port_untagged_vlan_get", Get)} })

\* BcmPort::getTransmitterTechnology without the test of the memoised
\* value.
getTransmitterTechnology_noMemo(st, name, fail) ==
    TheOne({ IF s.error # "none" THEN [st |-> s, value |-> "UNKNOWN"]
             ELSE IF isFabricName(name)
               THEN [st |-> [s EXCEPT !.transmitterTechnology_ = "COPPER"],
                     value |-> "COPPER"]
             ELSE TheOne({ IF r.error # "none"
                             THEN [st |-> r, value |-> "UNKNOWN"]
                             ELSE [st |-> [r EXCEPT !.transmitterTechnology_ =
                                                        r.hw.tech],
                                   value |-> r.hw.tech]
                           : r \in {opennsl(s, fail, "getTransmitterTech", Get)} })
             : s \in {st} })

\* BcmPort::getTransmitterTechnology
getTransmitterTechnology(st, name, fail) ==
    TheOne({ IF s.error # "none" THEN [st |-> s, value |-> "UNKNOWN"]
             ELSE IF s.transmitterTechnology_ # "UNKNOWN"
               THEN [st |-> s, value |-> s.transmitterTechnology_]
             ELSE IF isFabricName(name)
               THEN [st |-> [s EXCEPT !.transmitterTechnology_ = "COPPER"],
                     value |-> "COPPER"]
             ELSE TheOne({ IF r.error # "none"
                             THEN [st |-> r, value |-> "UNKNOWN"]
                             ELSE [st |-> [r EXCEPT !.transmitterTechnology_ =
                                                        r.hw.tech],
                                   value |-> r.hw.tech]
                           : r \in {opennsl(s, fail, "getTransmitterTech", Get)} })
             : s \in {st} })

\* BcmPort::getDesiredInterfaceMode answering a speed or a technology
\* without an entry with mode 0 instead of throwing.
getDesiredInterfaceMode_noThrow(st, speed, name, fail) ==
    TheOne({ IF transmitterTech.st.error # "none"
               THEN [st |-> transmitterTech.st, value |-> "none"]
             ELSE IF /\ speed \in DOMAIN kPortTypeMapping
                     /\ transmitterTech.value \in DOMAIN kPortTypeMapping[speed]
               THEN [st |-> transmitterTech.st,
                     value |-> kPortTypeMapping[speed][transmitterTech.value]]
             ELSE [st |-> transmitterTech.st, value |-> "none"]
             : transmitterTech \in {getTransmitterTechnology(st, name, fail)} })

\* BcmPort::getDesiredInterfaceMode
getDesiredInterfaceMode(st, speed, name, fail) ==
    TheOne({ IF transmitterTech.st.error # "none"
               THEN [st |-> transmitterTech.st, value |-> "none"]
             ELSE IF /\ speed \in DOMAIN kPortTypeMapping
                     /\ transmitterTech.value \in DOMAIN kPortTypeMapping[speed]
               THEN [st |-> transmitterTech.st,
                     value |-> kPortTypeMapping[speed][transmitterTech.value]]
             ELSE [st |-> [transmitterTech.st EXCEPT !.error = "FbossError"],
                   value |-> "none"]
             : transmitterTech \in {getTransmitterTechnology(st, name, fail)} })

\* BcmPort::getSpeed
getSpeed(st, fail) ==
    TheOne({ [st |-> r, value |-> r.hw.speed]
             : r \in {opennsl(st, fail, "port_speed_get", Get)} })

\* BcmPort::getDesiredPortSpeed
getDesiredPortSpeed(st, swPort, fail) ==
    IF swPort.speed = "DEFAULT"
      THEN TheOne({ [st |-> r, value |-> r.hw.maxSpeed]
                    : r \in {opennsl(st, fail, "port_speed_max", Get)} })
      ELSE [st |-> st, value |-> swPort.speed]

\* BcmPort::setInterfaceMode writing the mode without comparing it.
setInterfaceMode_alwaysWrites(st, swPort, fail) ==
    LET set(desiredMode, r) ==
            opennsl(r, fail, "port_interface_set", [ifMode |-> desiredMode])
        check(desiredMode) ==
            TheOne({ set(desiredMode.value, r)
                     : r \in {opennsl(desiredMode.st, fail,
                                      "port_interface_get", Get)} })
        mode(desiredPortSpeed) ==
            TheOne({ check(desiredMode)
                     : desiredMode \in
                         {getDesiredInterfaceMode(desiredPortSpeed.st,
                              desiredPortSpeed.value, swPort.name, fail)} })
    IN  TheOne({ mode(desiredPortSpeed)
                 : desiredPortSpeed \in {getDesiredPortSpeed(st, swPort, fail)} })

\* BcmPort::setInterfaceMode
setInterfaceMode(st, swPort, fail) ==
    LET portUp == isPortUp(swPort)
        set(desiredMode, r) ==
            LET curMode == r.hw.ifMode
            IN  IF curMode # desiredMode \/ ~portUp
                  THEN opennsl(r, fail, "port_interface_set",
                               [ifMode |-> desiredMode])
                  ELSE r
        check(desiredMode) ==
            TheOne({ set(desiredMode.value, r)
                     : r \in {opennsl(desiredMode.st, fail,
                                      "port_interface_get", Get)} })
        mode(desiredPortSpeed) ==
            TheOne({ check(desiredMode)
                     : desiredMode \in
                         {getDesiredInterfaceMode(desiredPortSpeed.st,
                              desiredPortSpeed.value, swPort.name, fail)} })
    IN  TheOne({ mode(desiredPortSpeed)
                 : desiredPortSpeed \in {getDesiredPortSpeed(st, swPort, fail)} })

\* BcmPort::setSpeed without the gate of line 751.
setSpeed_ungated(st, swPort, fail) ==
    LET set(desiredSpeed, curSpeed) ==
            IF curSpeed.st.error # "none" THEN curSpeed.st
            ELSE opennsl(setInterfaceMode(curSpeed.st, swPort, fail), fail,
                         "port_speed_set", [speed |-> desiredSpeed])
        check(desiredPortSpeed) ==
            TheOne({ set(desiredPortSpeed.value, curSpeed)
                     : curSpeed \in {getSpeed(desiredPortSpeed.st, fail)} })
    IN  TheOne({ check(desiredPortSpeed)
                 : desiredPortSpeed \in {getDesiredPortSpeed(st, swPort, fail)} })

\* BcmPort::setSpeed
setSpeed(st, swPort, fail) ==
    LET portUp == isPortUp(swPort)
        set(desiredSpeed, curSpeed) ==
            IF curSpeed.st.error # "none" THEN curSpeed.st
            ELSE IF ~portUp \/ curSpeed.value # desiredSpeed
              THEN opennsl(setInterfaceMode(curSpeed.st, swPort, fail), fail,
                           "port_speed_set", [speed |-> desiredSpeed])
              ELSE curSpeed.st
        check(desiredPortSpeed) ==
            TheOne({ set(desiredPortSpeed.value, curSpeed)
                     : curSpeed \in {getSpeed(desiredPortSpeed.st, fail)} })
    IN  TheOne({ check(desiredPortSpeed)
                 : desiredPortSpeed \in {getDesiredPortSpeed(st, swPort, fail)} })

\* The setters of BcmPort whose bodies set one group of attributes each.
setPortResource(st, swPort, fail) ==
    TheOne({ opennsl(s, fail, "setPortResource",
                     [speed |-> IF swPort.speed = "DEFAULT"
                                  THEN s.hw.maxSpeed ELSE swPort.speed])
             : s \in {st} })
setFEC(st, swPort, fail) == opennsl(st, fail, "setFEC", Get)
setPause(st, swPort, fail) == opennsl(st, fail, "setPause", Get)
setTxSetting(st, swPort, fail) == opennsl(st, fail, "setTxSetting", Get)
setSflowRates(st, swPort, fail) ==
    opennsl(st, fail, "setSflowRates", [sflow |-> TRUE])
setLoopbackMode(st, swPort, fail) == opennsl(st, fail, "setLoopbackMode", Get)
disableSflow(st, fail) == opennsl(st, fail, "disableSflow", [sflow |-> FALSE])

\* BcmPort::applyMirrorAction, run inside an operation.
applyMirrorActionIn(st, mirrorName, action, direction, fail) ==
    TheOne({ IF s.error # "none" \/ mirrorName = NoMirror THEN s
             ELSE IF mirrorName \notin mirrorTable
               THEN [s EXCEPT !.error = "CHECK"]
             ELSE LET call == IF action = "START" THEN "mirror_start"
                                                  ELSE "mirror_stop"
                      rejected ==
                          /\ call = fail
                          /\ FALSE \in mirrorActionOutcomes(
                                 s.attached, mirrorName, action, direction)
                  IN  IF rejected
                        THEN [s EXCEPT !.log = Append(@, call),
                                       !.error = "BcmError"]
                        ELSE [s EXCEPT !.log = Append(@, call),
                                       !.attached = applyPortMirrorAction(
                                           @, mirrorName, action, direction)]
             : s \in {st} })

\* BcmPort::updateMirror, run inside an operation.
updateMirror(st, swMirrorName, direction, fail) ==
    LET member(s) == IF direction = "INGRESS" THEN s.ingressMirror_
                                              ELSE s.egressMirror_
        set(s) == IF s.error # "none" THEN s
                  ELSE IF direction = "INGRESS"
                    THEN [s EXCEPT !.ingressMirror_ = swMirrorName]
                    ELSE [s EXCEPT !.egressMirror_ = swMirrorName]
        start(s) == applyMirrorActionIn(s, member(s), "START", direction, fail)
        stop(s) == applyMirrorActionIn(s, member(s), "STOP", direction, fail)
    IN  TheOne({ start(s2)
                 : s2 \in { set(s1) : s1 \in { stop(s) : s \in {st} } } })

\* BcmPort::program
program(st, port, fail) ==
    LET speed(s) == IF s.hw.portResourceAPIs
                      THEN setPortResource(s, port, fail)
                      ELSE setFEC(setSpeed(s, port, fail), port, fail)
        vlan == setIngressVlan(st, port, fail)
        ingress == updateMirror(TheOne({ speed(s) : s \in {vlan} }),
                                port.ingressMirror, "INGRESS", fail)
        egress == updateMirror(ingress, port.egressMirror, "EGRESS", fail)
        pause == setPause(egress, port, fail)
        tx == setTxSetting(pause, port, fail)
        sflow == setSflowRates(tx, port, fail)
    IN  setLoopbackMode(sflow, port, fail)

Min(S) == CHOOSE x \in S : \A y \in S : x <= y

\* The loop of enable over swPort->getVlans().
RECURSIVE vlanPortAdd(_, _, _)
vlanPortAdd(st, vlans, fail) ==
    IF vlans = {} THEN st
    ELSE LET v == Min(vlans)
         IN  vlanPortAdd(
                 TheOne({ opennsl(s, fail, "vlan_port_add",
                                  [vlans |-> s.hw.vlans \cup {v}])
                          : s \in {st} }),
                 vlans \ {v}, fail)

\* The loop of disable over swPort->getVlans().
RECURSIVE vlanPortRemove(_, _, _)
vlanPortRemove(st, vlans, fail) ==
    IF vlans = {} THEN st
    ELSE LET v == Min(vlans)
         IN  vlanPortRemove(
                 TheOne({ opennsl(s, fail, "vlan_port_remove",
                                  [vlans |-> s.hw.vlans \ {v}])
                          : s \in {st} }),
                 vlans \ {v}, fail)

\* BcmPort::enable with counter collection enabled before program().
enable_statFirst(st, swPort, fail) ==
    LET vlans(s) == vlanPortAdd(s, swPort.vlans, fail)
        member(s) == opennsl(s, fail, "port_vlan_member_set",
                             [vlanFilter |-> TRUE])
        stat(s) == opennsl(s, fail, "port_stat_enable_set",
                           [statEnabled |-> TRUE])
        admin(s) == opennsl(s, fail, "port_enable_set", [enabled |-> TRUE])
    IN  TheOne({ IF enabled.st.error # "none" \/ enabled.value
                   THEN enabled.st
                   ELSE admin(program(stat(member(vlans(enabled.st))),
                                      swPort, fail))
                 : enabled \in {isEnabled(st, fail)} })

\* BcmPort::enable without the early return of lines 525-528.
enable_noEarlyReturn(st, swPort, fail) ==
    LET vlans(s) == vlanPortAdd(s, swPort.vlans, fail)
        member(s) == opennsl(s, fail, "port_vlan_member_set",
                             [vlanFilter |-> TRUE])
        stat(s) == opennsl(s, fail, "port_stat_enable_set",
                           [statEnabled |-> TRUE])
        admin(s) == opennsl(s, fail, "port_enable_set", [enabled |-> TRUE])
    IN  TheOne({ IF enabled.st.error # "none"
                   THEN enabled.st
                   ELSE admin(stat(program(member(vlans(enabled.st)),
                                           swPort, fail)))
                 : enabled \in {isEnabled(st, fail)} })

\* enable writing admin-up before it programs the port.
enable_adminUpFirst(st, swPort, fail) ==
    LET vlans(s) == vlanPortAdd(s, swPort.vlans, fail)
        member(s) == opennsl(s, fail, "port_vlan_member_set",
                             [vlanFilter |-> TRUE])
        stat(s) == opennsl(s, fail, "port_stat_enable_set",
                           [statEnabled |-> TRUE])
        admin(s) == opennsl(s, fail, "port_enable_set", [enabled |-> TRUE])
    IN  TheOne({ IF enabled.st.error # "none" \/ enabled.value
                   THEN enabled.st
                   ELSE stat(program(admin(member(vlans(enabled.st))),
                                     swPort, fail))
                 : enabled \in {isEnabled(st, fail)} })

\* BcmPort::enable
\* A return of OPENNSL_E_EXISTS from port_stat_enable_set is not taken for an
\* error: collection is enabled then, as after a success.
enable(st, swPort, fail) ==
    LET vlans(s) == vlanPortAdd(s, swPort.vlans, fail)
        member(s) == opennsl(s, fail, "port_vlan_member_set",
                             [vlanFilter |-> TRUE])
        stat(s) == opennsl(s, fail, "port_stat_enable_set",
                           [statEnabled |-> TRUE])
        admin(s) == opennsl(s, fail, "port_enable_set", [enabled |-> TRUE])
    IN  TheOne({ IF enabled.st.error # "none" \/ enabled.value
                   THEN enabled.st
                   ELSE admin(stat(program(member(vlans(enabled.st)),
                                           swPort, fail)))
                 : enabled \in {isEnabled(st, fail)} })

\* BcmPort::disable with sampling stopped before counter collection.
disable_sflowFirst(st, swPort, fail) ==
    LET vlans(s) == vlanPortRemove(s, swPort.vlans, fail)
        stat(s) == opennsl(s, fail, "port_stat_enable_set",
                           [statEnabled |-> FALSE])
        admin(s) == opennsl(s, fail, "port_enable_set", [enabled |-> FALSE])
    IN  TheOne({ IF enabled.st.error # "none" \/ ~enabled.value
                   THEN enabled.st
                   ELSE admin(stat(disableSflow(vlans(enabled.st), fail)))
                 : enabled \in {isEnabled(st, fail)} })

\* BcmPort::disable deciding from the admin state of the configuration
\* instead of the one read from the hardware.
disable_cachedFlag(st, swPort, fail) ==
    LET vlans(s) == vlanPortRemove(s, swPort.vlans, fail)
        stat(s) == opennsl(s, fail, "port_stat_enable_set",
                           [statEnabled |-> FALSE])
        admin(s) == opennsl(s, fail, "port_enable_set", [enabled |-> FALSE])
    IN  TheOne({ IF enabled.st.error # "none" \/ swPort.adminState = "DISABLED"
                   THEN enabled.st
                   ELSE admin(disableSflow(stat(vlans(enabled.st)), fail))
                 : enabled \in {isEnabled(st, fail)} })

\* BcmPort::disable
disable(st, swPort, fail) ==
    LET vlans(s) == vlanPortRemove(s, swPort.vlans, fail)
        stat(s) == opennsl(s, fail, "port_stat_enable_set",
                           [statEnabled |-> FALSE])
        admin(s) == opennsl(s, fail, "port_enable_set", [enabled |-> FALSE])
    IN  TheOne({ IF enabled.st.error # "none" \/ ~enabled.value
                   THEN enabled.st
                   ELSE admin(disableSflow(stat(vlans(enabled.st)), fail))
                 : enabled \in {isEnabled(st, fail)} })

Count(log, call) == Cardinality({ i \in 1..Len(log) : log[i] = call })

\* The disruptive writes a call issued, and whether it threw.
Writes(log, error) == [speedSets |-> Count(log, "port_speed_set"),
                       interfaceSets |-> Count(log, "port_interface_set"),
                       failed |-> error # "none"]

NoBcmCall == [op |-> "none", swPort |-> {}, log |-> << >>, error |-> "none",
              previous |-> {}]

\* An operation of the port has run from the current state to st: its
\* effects become the state, and the call is recorded; an enable that
\* follows an enable also records what that one wrote.  A
\* failed CHECK ends the process.
BcmReturn(op, swPort, st) ==
    /\ hw' = st.hw
    /\ transmitterTechnology_' = st.transmitterTechnology_
    /\ ingressMirror_' = st.ingressMirror_
    /\ egressMirror_' = st.egressMirror_
    /\ attached' = st.attached
    /\ mpc' = IF st.error = "CHECK" THEN "aborted" ELSE mpc
    /\ bcmCall' = [op |-> op, swPort |-> {swPort}, log |-> st.log,
                   error |-> st.error,
                   previous |->
                       IF op = "enable" /\ bcmCall.op = "enable"
                         THEN {Writes(bcmCall.log, bcmCall.error)}
                         ELSE {}]
    /\ UNCHANGED <<mirrorTable, mirrorCall, mirrorLog, mirrorError, dtor, saiVars, busVars,
                   statsVars>>

BcmStart == BcmState(hw, transmitterTechnology_, ingressMirror_,
                     egressMirror_, attached)

\* The calls whose failure is explored: the read of the admin state, the
\* writes of interface mode and speed, the stop of a mirror, and the two
\* calls that end enable and disable.
FailPoints == {"port_enable_get", "vlan_port_add", "port_interface_set",
               "port_speed_set", "mirror_stop", "port_stat_enable_set",
               "port_enable_set"}

\* What can go wrong in a call that would issue log if nothing did.
Failures(log) == {"none"} \cup (FailPoints \cap Range(log))

\* The operations are called with any configuration, and one of the calls
\* they make to the SDK can fail.
Enable ==
    /\ mpc = "idle"
    /\ \E swPort \in BcmSwPorts :
         \E fail \in Failures(enable(BcmStart, swPort, "none").log) :
           BcmReturn("enable", swPort, enable(BcmStart, swPort, fail))

Disable ==
    /\ mpc = "idle"
    /\ \E swPort \in BcmSwPorts :
         \E fail \in Failures(disable(BcmStart, swPort, "none").log) :
           BcmReturn("disable", swPort, disable(BcmStart, swPort, fail))

Program ==
    /\ mpc = "idle"
    /\ \E swPort \in BcmSwPorts :
         \E fail \in Failures(program(BcmStart, swPort, "none").log) :
           BcmReturn("program", swPort, program(BcmStart, swPort, fail))

\* The speeds the table has entries for, and a front-panel and a backplane
\* port name.
PortSpeeds == DOMAIN kPortTypeMapping
PortNames == {"eth1/1/1", "fab1/1/1"}

\* getDesiredInterfaceMode is called for any speed and port name; the query
\* of the platform for the transmitter can fail.  The memoised technology is
\* kept, and the call is recorded with the value it returned.
GetDesiredInterfaceMode ==
    /\ mpc = "idle"
    /\ \E speed \in PortSpeeds, name \in PortNames,
          fail \in {"none", "getTransmitterTech"} :
         LET result == getDesiredInterfaceMode(BcmStart, speed, name, fail)
         IN  /\ transmitterTechnology_' = result.st.transmitterTechnology_
             /\ bcmCall' = [op |-> "getDesiredInterfaceMode", swPort |-> {},
                            log |-> result.st.log,
                            error |-> result.st.error, previous |-> {},
                            speed |-> speed, name |-> name,
                            value |-> result.value]
    /\ UNCHANGED <<hw, dtor, bcmMirrorVars, saiVars, statsVars, busVars>>

\* getTransmitterTechnology is called with the name of the port, which
\* stays the one of the first call; the query of the platform can fail.  The
\* call is recorded with the value it returned, and with what the calls
\* before it did: whether a query had returned (probed), whether a query was
\* made after one had returned (reprobed), and the value the first call
\* that returned gave (first).
GetTransmitterTechnology ==
    /\ mpc = "idle"
    /\ \E name \in PortNames, fail \in {"none", "getTransmitterTech"} :
         LET earlier == bcmCall.op = "getTransmitterTechnology"
             result == getTransmitterTechnology(BcmStart, name, fail)
             returned == result.st.error = "none"
             queried == returned /\ "getTransmitterTech" \in Range(result.st.log)
         IN  /\ earlier => name = bcmCall.name
             /\ transmitterTechnology_' = result.st.transmitterTechnology_
             /\ bcmCall' =
                    [op |-> "getTransmitterTechnology", swPort |-> {},
                     log |-> result.st.log, error |-> result.st.error,
                     previous |-> {}, name |-> name, fail |-> fail,
                     value |-> result.value,
                     probed |-> queried \/ (earlier /\ bcmCall.probed),
                     reprobed |-> \/ queried /\ earlier /\ bcmCall.probed
                                  \/ earlier /\ bcmCall.reprobed,
                     first |-> IF earlier /\ bcmCall.first # {}
                                 THEN bcmCall.first
                               ELSE IF returned THEN {result.value}
                               ELSE {}]
    /\ UNCHANGED <<hw, dtor, bcmMirrorVars, saiVars, statsVars, busVars>>

\* A transceiver is plugged, replaced or removed: the platform answers the
\* next query differently.
TransceiverChanged ==
    /\ mpc = "idle"
    /\ \E tech \in TransmitterTechnologies \ {hw.tech} :
         hw' = [hw EXCEPT !.tech = tech]
    /\ UNCHANGED <<transmitterTechnology_, bcmCall, dtor, bcmMirrorVars, saiVars, busVars,
                   statsVars>>

\* A speed of cfg::PortSpeed that kPortTypeMapping has no entry for.
UnsupportedSpeed == "FOURHUNDREDG"

\* The configurations setSpeed is called with: the ones of the operations,
\* and an up and a down port configured to the speed without an entry.
SetSpeedPorts ==
    BcmSwPorts \cup
    { BcmSwPort("eth1/1/1", "ENABLED", o, UnsupportedSpeed, 2, {1, 2}, NoMirror, NoMirror)
        : o \in {"UP", "DOWN"} }

\* setSpeed is called on its own, as program calls it.
SetSpeed ==
    /\ mpc = "idle"
    /\ \E swPort \in SetSpeedPorts :
         BcmReturn("setSpeed", swPort, setSpeed(BcmStart, swPort, "none"))

\* The port as the SDK has it after a cold boot (BcmPort::init brings it
\* down); nothing is known about the transmitter yet.
ColdBootHw ==
    [enabled |-> FALSE, speed |-> "HUNDREDG", ifMode |-> "CAUI",
     maxSpeed |-> "HUNDREDG", untaggedVlan |-> 1, vlans |-> {},
     vlanFilter |-> FALSE, statEnabled |-> FALSE, sflow |-> FALSE,
     tech |-> "UNKNOWN", portResourceAPIs |-> FALSE]

\* The states the hardware and the platform can be in when the agent starts
\* (a warm boot finds the port as the previous run left it).
BootHw ==
    { [ColdBootHw EXCEPT !.enabled = e, !.speed = s, !.ifMode = m, !.tech = t] :
        e \in BOOLEAN, s \in {"TWENTYFIVEG", "HUNDREDG"}, m \in {"CR", "CAUI"},
        t \in TransmitterTechnologies }
    \cup { [ColdBootHw EXCEPT !.portResourceAPIs = TRUE, !.tech = "COPPER"] }

(***************************************************************************)
(* BcmPort statistics: updateStats, reinitPortStats and the readers        *)
(***************************************************************************)
Max(a, b) == IF a >= b THEN a ELSE b

\* BcmPortStats(HwPortStats portStats, seconds timeRetrieved)
BcmPortStats(portStats, timeRetrieved) ==
    [portStats_ |-> portStats, timeRetrieved_ |-> timeRetrieved]

\* BcmPortStats(int numUnicastQueues) setting every counter to 0.
BcmPortStatsOfQueues_zeroed ==
    BcmPortStats([c \in CounterNames |-> 0]
                   @@ [queueOutDiscardBytes_ |-> <<0>>, queueOutBytes_ |-> <<0>>],
                 0)

\* BcmPortStats(int numUnicastQueues), for a port of one unicast queue: the
\* queue counters are 0, every other counter is as default-constructed.
BcmPortStatsOfQueues ==
    BcmPortStats([HwPortStats EXCEPT !.queueOutDiscardBytes_ = <<0>>,
                                     !.queueOutBytes_ = <<0>>], 0)

\* What opennsl_stat_get can give updateStat: a counter value {v}, or a
\* failure {} (updateStat logs it and leaves *statVal as it was).
StatReads == { {v} : v \in 0..MaxCounter } \cup { {} }

\* BcmPort::updateStat into a default-constructed HwPortStats.
updateStat(read) == IF read = {} THEN STAT_UNINITIALIZED ELSE TheOne(read)

\* BcmPort::updateStats starting the non pause discards from 0 at every
\* poll.
updateStats_noSeed(last, lossy, now, inDiscards, inPause) ==
    LET kUninit == STAT_UNINITIALIZED
        curPortStats == [HwPortStats EXCEPT
                             !.inDiscards_ = updateStat(inDiscards),
                             !.inPause_ = updateStat(inPause)]
        lastPortStats == last.portStats_
        inPauseSincePrev == curPortStats.inPause_ - lastPortStats.inPause_
        inDiscardsSincePrev ==
            curPortStats.inDiscards_ - lastPortStats.inDiscards_
        inNonPauseDiscardsSincePrev ==
            Max(0, inDiscardsSincePrev - inPauseSincePrev)
    IN  IF /\ lossy
           /\ lastPortStats.inDiscards_ # kUninit
           /\ lastPortStats.inPause_ # kUninit
           /\ inPauseSincePrev >= 0
           /\ inDiscardsSincePrev >= 0
          THEN BcmPortStats(
                   [curPortStats EXCEPT !.inNonPauseDiscards_ =
                        0 + inNonPauseDiscardsSincePrev],
                   now)
          ELSE BcmPortStats(curPortStats, now)

\* BcmPort::updateStats without std::max(0L, ...).
updateStats_noClamp(last, lossy, now, inDiscards, inPause) ==
    LET kUninit == STAT_UNINITIALIZED
        curPortStats == [HwPortStats EXCEPT
                             !.inDiscards_ = updateStat(inDiscards),
                             !.inPause_ = updateStat(inPause)]
        lastPortStats == last.portStats_
        inPauseSincePrev == curPortStats.inPause_ - lastPortStats.inPause_
        inDiscardsSincePrev ==
            curPortStats.inDiscards_ - lastPortStats.inDiscards_
        inNonPauseDiscardsSincePrev ==
            inDiscardsSincePrev - inPauseSincePrev
    IN  IF /\ lossy
           /\ lastPortStats.inDiscards_ # kUninit
           /\ lastPortStats.inPause_ # kUninit
           /\ inPauseSincePrev >= 0
           /\ inDiscardsSincePrev >= 0
          THEN BcmPortStats(
                   [curPortStats EXCEPT !.inNonPauseDiscards_ =
                        (IF lastPortStats.inNonPauseDiscards_ = kUninit
                           THEN 0
                           ELSE lastPortStats.inNonPauseDiscards_)
                        + inNonPauseDiscardsSincePrev],
                   now)
          ELSE BcmPortStats(curPortStats, now)

\* BcmPort::updateStats taking the differences from a snapshot whose
\* inDiscards_ or inPause_ was not collected.
updateStats_noUninitTest(last, lossy, now, inDiscards, inPause) ==
    LET kUninit == STAT_UNINITIALIZED
        curPortStats == [HwPortStats EXCEPT
                             !.inDiscards_ = updateStat(inDiscards),
                             !.inPause_ = updateStat(inPause)]
        lastPortStats == last.portStats_
        inPauseSincePrev == curPortStats.inPause_ - lastPortStats.inPause_
        inDiscardsSincePrev ==
            curPortStats.inDiscards_ - lastPortStats.inDiscards_
        inNonPauseDiscardsSincePrev ==
            Max(0, inDiscardsSincePrev - inPauseSincePrev)
    IN  IF /\ lossy
           /\ inPauseSincePrev >= 0
           /\ inDiscardsSincePrev >= 0
          THEN BcmPortStats(
                   [curPortStats EXCEPT !.inNonPauseDiscards_ =
                        (IF lastPortStats.inNonPauseDiscards_ = kUninit
                           THEN 0
                           ELSE lastPortStats.inNonPauseDiscards_)
                        + inNonPauseDiscardsSincePrev],
                   now)
          ELSE BcmPortStats(curPortStats, now)

\* BcmPort::updateStats up to the snapshot it publishes: the counters read
\* (of which inDiscards_ and inPause_ are followed), then the non pause
\* discards derived from the last snapshot.
updateStats(last, lossy, now, inDiscards, inPause) ==
    LET kUninit == STAT_UNINITIALIZED
        curPortStats == [HwPortStats EXCEPT
                             !.inDiscards_ = updateStat(inDiscards),
                             !.inPause_ = updateStat(inPause)]
        lastPortStats == last.portStats_
        inPauseSincePrev == curPortStats.inPause_ - lastPortStats.inPause_
        inDiscardsSincePrev ==
            curPortStats.inDiscards_ - lastPortStats.inDiscards_
        inNonPauseDiscardsSincePrev ==
            Max(0, inDiscardsSincePrev - inPauseSincePrev)
    IN  IF /\ lossy
           /\ lastPortStats.inDiscards_ # kUninit
           /\ lastPortStats.inPause_ # kUninit
           /\ inPauseSincePrev >= 0
           /\ inDiscardsSincePrev >= 0
          THEN BcmPortStats(
                   [curPortStats EXCEPT !.inNonPauseDiscards_ =
                        (IF lastPortStats.inNonPauseDiscards_ = kUninit
                           THEN 0
                           ELSE lastPortStats.inNonPauseDiscards_)
                        + inNonPauseDiscardsSincePrev],
                   now)
          ELSE BcmPortStats(curPortStats, now)

\* The keys reinitPortStats (re)creates a counter for.
CounterKeys ==
    {"kInBytes", "kInUnicastPkts", "kInMulticastPkts", "kInBroadcastPkts",
     "kInDiscards", "kInErrors", "kInPause", "kInIpv4HdrErrors",
     "kInIpv6HdrErrors", "kInNonPauseDiscards",
     "kOutBytes", "kOutUnicastPkts", "kOutMulticastPkts", "kOutBroadcastPkts",
     "kOutDiscards", "kOutErrors", "kOutPause", "kOutEcnCounter"}

\* BcmPort::statName under the port name given.
statName(name, key) == <<name, ".", key>>

\* The name the constructor gives the port: "port" and the port id.
ConstructedName == "port1"

\* reinitPortStat for every key: portCounters_ holds, under the key, a new
\* counter exported under the stat name.
reinitPortStat(name) == [key \in CounterKeys |-> statName(name, key)]

\* reinitPortStats, "(re) init out queue length" and "(re) init
\* histograms": the stat and the two histograms of bucket width 1 from 0.
reinitHistograms(name) ==
    [outQueueLen_ |-> statName(name, "out_queue_length"),
     inPktLengths_ |-> [name |-> statName(name, "in_pkt_lengths"),
                        bucketSize |-> 1, min |-> 0],
     outPktLengths_ |-> [name |-> statName(name, "out_pkt_lengths"),
                         bucketSize |-> 1, min |-> 0]]

\* updateName that re-initialises whatever the name.
updateName_noCompare(name, newName) ==
    [portName_ |-> newName, reinitPortStats |-> TRUE]

\* updateName: nothing for the name the port has; otherwise the name is
\* taken and the statistics are initialised again.
updateName(name, newName) ==
    IF newName = name
      THEN [portName_ |-> name, reinitPortStats |-> FALSE]
      ELSE [portName_ |-> newName, reinitPortStats |-> TRUE]

\* No updateStats since the statistics were initialised by the constructor
\* (or, with another value of since, by reinitPortStats).  A call made is
\* recorded with whether one of its reads of inDiscards and inPause failed,
\* and whether one of those of the call before it did.
NoPoll == [called |-> FALSE, lossy |-> FALSE, first |-> FALSE,
           since |-> "BcmPort", failed |-> FALSE, afterFailed |-> FALSE]

\* No read in progress.
NoReader == [pc |-> "idle", portStats |-> {}, timeRetrieved |-> {},
             fromTime |-> {}]

\* updateStats for a port that reports statistics, at time now, with the MMU
\* lossy or not, and with any outcome of the two reads: the snapshot is
\* replaced under the write lock in one step.
Poll ==
    \E lossy \in BOOLEAN, now \in 1..MaxTime,
       inDiscards \in StatReads, inPause \in StatReads :
        LET published ==
                updateStats(lastPortStats_, lossy, now, inDiscards, inPause)
        IN  /\ lastPortStats_' = published
            /\ pollCall' = [called |-> TRUE, lossy |-> lossy,
                            first |-> ~pollCall.called,
                            since |-> pollCall.since,
                            failed |-> {} \in {inDiscards, inPause},
                            afterFailed |-> pollCall.failed]
            /\ UNCHANGED <<reader, nameVars, dtor, hw,
                           transmitterTechnology_, bcmCall,
                           bcmMirrorVars, saiVars, busVars>>

\* BcmPort::reinitPortStats for a port that reports statistics.
ReinitPortStats ==
    /\ pollCall.called
    /\ lastPortStats_' = BcmPortStatsOfQueues
    /\ pollCall' = [NoPoll EXCEPT !.since = "reinitPortStats"]
    /\ portCounters_' = reinitPortStat(portName_)
    /\ histograms' = reinitHistograms(portName_)
    /\ UNCHANGED <<portName_, reader, dtor, hw, transmitterTechnology_,
                   bcmCall, bcmMirrorVars, saiVars, busVars>>

\* The names updateName is called with.
NewNames == {ConstructedName, "eth1/1/1", "eth1/1/2"}

\* BcmPort::updateName for a port that reports statistics.
UpdateName ==
    /\ \E newName \in NewNames :
         LET updated == updateName(portName_, newName)
         IN  /\ portName_' = updated.portName_
             /\ IF updated.reinitPortStats
                  THEN /\ portCounters_' = reinitPortStat(updated.portName_)
                       /\ histograms' = reinitHistograms(updated.portName_)
                       /\ lastPortStats_' = BcmPortStatsOfQueues
                       /\ pollCall' = [NoPoll EXCEPT !.since = "reinitPortStats"]
                  ELSE UNCHANGED <<portCounters_, histograms, lastPortStats_,
                                   pollCall>>
             /\ bcmCall' = [NoBcmCall EXCEPT !.op = "updateName",
                                             !.swPort = {newName},
                                             !.previous = {portName_}]
    /\ UNCHANGED <<reader, dtor, hw, transmitterTechnology_,
                   bcmMirrorVars, saiVars, busVars>>

\* BcmPort::getPortStats, the first call of a reader that wants the counters
\* and the time they were collected at: a copy under the read lock.  The
\* time of the snapshot the counters are copied from is kept next to them.
GetPortStats ==
    /\ reader.pc # "stats"
    /\ reader' = [pc |-> "stats", portStats |-> {lastPortStats_.portStats_},
                  timeRetrieved |-> {},
                  fromTime |-> {lastPortStats_.timeRetrieved_}]
    /\ UNCHANGED <<lastPortStats_, pollCall, nameVars, dtor, hw,
                   transmitterTechnology_, bcmCall, bcmMirrorVars, saiVars,
                   busVars>>

\* BcmPort::getTimeRetrieved, the second call of the reader: a copy under
\* the read lock, taken anew.
GetTimeRetrieved ==
    /\ reader.pc = "stats"
    /\ reader' = [reader EXCEPT !.pc = "done",
                                !.timeRetrieved = {lastPortStats_.timeRetrieved_}]
    /\ UNCHANGED <<lastPortStats_, pollCall, nameVars, dtor, hw,
                   transmitterTechnology_, bcmCall, bcmMirrorVars, saiVars,
                   busVars>>

\* No destructor has run.
NoDtor == [started |-> FALSE, ingress |-> NoMirror, egress |-> NoMirror,
           released |-> FALSE]

\* ~BcmPort, lines 428-429: STOP against the ingress mirror.  An exception
\* that leaves a destructor ends the process (std::terminate).
dtorIngress ==
    /\ dtor' = [started |-> TRUE, ingress |-> ingressMirror_,
                egress |-> egressMirror_, released |-> FALSE]
    /\ applyMirrorAction(ingressMirror_, "STOP", "INGRESS", << >>,
                         "dtor_egress", "aborted")
    /\ UNCHANGED <<ingressMirror_, egressMirror_, mirrorTable, mirrorCall>>

\* ~BcmPort, line 430: STOP against the egress mirror.
dtorEgress ==
    /\ applyMirrorAction(egressMirror_, "STOP", "EGRESS", mirrorLog,
                         "dtor_members", "aborted")
    /\ UNCHANGED <<ingressMirror_, egressMirror_, mirrorTable, mirrorCall, dtor>>

\* ~BcmPort, line 431: the body is left, the members are destroyed and the
\* object is released.
dtorRelease ==
    /\ dtor' = [dtor EXCEPT !.released = TRUE]
    /\ mpc' = "destroyed"
    /\ UNCHANGED <<ingressMirror_, egressMirror_, mirrorTable, attached,
                   mirrorCall, mirrorLog, mirrorError>>

DtorIngress ==
    /\ mpc = "idle"
    /\ dtorIngress
    /\ UNCHANGED <<saiVars, hw, transmitterTechnology_, bcmCall, statsVars,
                   busVars>>

DtorEgress ==
    /\ mpc = "dtor_egress"
    /\ dtorEgress
    /\ UNCHANGED <<saiVars, hw, transmitterTechnology_, bcmCall, statsVars,
                   busVars>>

DtorRelease ==
    /\ mpc = "dtor_members"
    /\ dtorRelease
    /\ UNCHANGED <<saiVars, hw, transmitterTechnology_, bcmCall, statsVars,
                   busVars>>

(***************************************************************************)
(* BaseWedgeI2CBus                                                         *)
(***************************************************************************)
\* The modules (QSFP ports) behind the bus, numbered from 1.
Modules == 1..MaxModules

\* One call on the CP2112 device or on the multiplexer: it is logged, and
\* the calls whose position in the log is in fails throw I2cError. Nothing
\* is called once the operation has thrown.
devCall(b, fails, call) ==
    TheOne({ IF s.error # "none" THEN s
             ELSE IF Len(s.log) + 1 \in fails
               THEN [s EXCEPT !.log = Append(@, call), !.error = "I2cError"]
             ELSE [s EXCEPT !.log = Append(@, call)]
             : s \in {b} })

DevCall(op, module, value, len) ==
    [op |-> op, module |-> module, value |-> value, len |-> len]

\* selectQsfpImpl of the platform's bus: the multiplexer is set and
\* selectedPort_ follows it.
selectQsfpImpl(b, fails, port) ==
    TheOne({ IF s.error # "none" THEN s
             ELSE [s EXCEPT !.selectedPort_ = port]
             : s \in {devCall(b, fails,
                              DevCall("selectQsfpImpl",
                                      IF port = NO_PORT THEN b.selectedPort_
                                                        ELSE port,
                                      port, 0))} })

\* CHECK_*: the process aborts when the condition fails.
check(b, condition) ==
    IF b.error = "none" /\ ~condition THEN [b EXCEPT !.error = "CHECK"] ELSE b

selectQsfp(b, fails, port) ==
    TheOne({ IF s.error # "none" \/ port = s.selectedPort_
               THEN s
               ELSE selectQsfpImpl(s, fails, port)
             : s \in {check(b, port > 0)} })

unselectQsfp(b, fails) ==
    IF b.error = "none" /\ b.selectedPort_ # NO_PORT
      THEN selectQsfpImpl(b, fails, NO_PORT)
      ELSE b

\* read, with len > 128, reading twice.
readLong(b, fails, offset, len) ==
    LET module == b.selectedPort_
        first == devCall(b, fails, DevCall("read", module, 0, 128))
        second == devCall(first, fails,
                          DevCall("writeByte", module, offset + 128, 1))
    IN  devCall(second, fails, DevCall("read", module, 0, len - 128))

read(b, fails, offset, len) ==
    TheOne({ IF s.error # "none" THEN s
             ELSE IF len > 128 THEN readLong(s, fails, offset, len)
             ELSE devCall(s, fails, DevCall("read", s.selectedPort_, 0, len))
             : s \in {devCall(check(b, offset <= 255), fails,
                              DevCall("writeByte", b.selectedPort_,
                                      offset, 1))} })

moduleRead(b, fails, module, offset, len) ==
    TheOne({ unselectQsfp(r, fails)
             : r \in {read(check(selectQsfp(b, fails, module),
                                 selectQsfp(b, fails, module).selectedPort_
                                     # NO_PORT),
                           fails, offset, len)} })

\* What isPresent and scanPresence give back: the bus and the value.
Probed(b, value) == [bus |-> b, value |-> value]

\* isPresent that lets the I2cError through.
isPresent_noCatch(b, fails, module) ==
    TheOne({ Probed(r, IF r.error = "none" THEN {TRUE} ELSE {})
             : r \in {moduleRead(b, fails, module, 0, 1)} })

\* isPresent: false when moduleRead throws I2cError, true when it returns;
\* no value when the process has aborted.
isPresent(b, fails, module) ==
    TheOne({ CASE r.error = "I2cError" ->
                    Probed([r EXCEPT !.error = "none"], {FALSE})
               [] r.error = "none" -> Probed(r, {TRUE})
               [] OTHER -> Probed(r, {})
             : r \in {moduleRead(b, fails, module, 0, 1)} })

\* scanPresence from the entry of the smallest key in todo on: std::map is
\* walked in key order.
RECURSIVE scanPresenceFrom(_, _, _, _)
scanPresenceFrom(b, fails, presences, todo) ==
    IF todo = {} \/ b.error # "none"
      THEN Probed(b, presences)
      ELSE LET key == Min(todo)
               r == moduleRead(b, fails, key + 1, 0, 1)
           IN  TheOne({ IF s.error = "I2cError"
                          THEN scanPresenceFrom(
                                   [s EXCEPT !.error = "none"], fails,
                                   [presences EXCEPT ![key] = "ABSENT"],
                                   todo \ {key})
                          ELSE IF s.error = "none"
                          THEN scanPresenceFrom(
                                   s, fails,
                                   [presences EXCEPT ![key] = "PRESENT"],
                                   todo \ {key})
                          ELSE Probed(s, presences)
                        : s \in {r} })

scanPresence(b, fails, presences) ==
    scanPresenceFrom(b, fails, presences, DOMAIN presences)

\* The bus after open().
OpenBus == [selectedPort_ |-> NO_PORT, log |-> << >>, error |-> "none"]

NoBusCall == [op |-> "none", module |-> 0, offset |-> 0, len |-> 0,
              fails |-> {}, value |-> {}, requested |-> {}]

BusInit == bus = OpenBus /\ busCall = NoBusCall

\* The bus as an operation finds it: nothing logged, nothing thrown.
BusReady == bus.error # "CHECK"

\* The offsets and the lengths the bus is read with.
Offsets == {0, 127, 128, 255, 256}
Lens == {0, 1, 128, 129, 256, MaxLen}

\* The device calls of one operation that can be made to fail.
FailAt == {{}} \cup { {n} : n \in 1..6 }

\* The device calls of one scanPresence that can be made to fail: a module
\* is not called again once a call for it has failed.
ScanFailAt ==
    { f \in SUBSET (1..(4 * MaxModules)) : Cardinality(f) <= MaxModules }

ModuleRead ==
    /\ BusReady
    /\ \E module \in Modules, offset \in Offsets, len \in Lens,
          fails \in FailAt :
         /\ bus' = moduleRead([bus EXCEPT !.log = << >>, !.error = "none"],
                              fails, module, offset, len)
         /\ busCall' = [NoBusCall EXCEPT !.op = "moduleRead",
                                         !.module = module,
                                         !.offset = offset, !.len = len,
                                         !.fails = fails]
    /\ UNCHANGED <<saiVars, bcmMirrorVars, bcmPortVars>>

IsPresent ==
    /\ BusReady
    /\ \E module \in Modules \cup {0}, fails \in FailAt :
         LET probed == isPresent([bus EXCEPT !.log = << >>, !.error = "none"],
                                 fails, module)
         IN  /\ bus' = probed.bus
             /\ busCall' = [NoBusCall EXCEPT !.op = "isPresent",
                                             !.module = module, !.len = 1,
                                             !.fails = fails,
                                             !.value = probed.value]
    /\ UNCHANGED <<saiVars, bcmMirrorVars, bcmPortVars>>

ScanPresence ==
    /\ BusReady
    /\ \E requested \in SUBSET { m - 1 : m \in Modules },
          fails \in ScanFailAt :
         LET probed == scanPresence(
                           [bus EXCEPT !.log = << >>, !.error = "none"],
                           fails, [k \in requested |-> "UNKNOWN"])
         IN  /\ bus' = probed.bus
             /\ busCall' = [NoBusCall EXCEPT !.op = "scanPresence",
                                             !.len = 1, !.fails = fails,
                                             !.requested = requested,
                                             !.value = {probed.value}]
    /\ UNCHANGED <<saiVars, bcmMirrorVars, bcmPortVars>>

(***************************************************************************)
(* Specifications                                                          *)
(***************************************************************************)
SaiInit ==
    /\ handles_ = {}
    /\ portIds = EmptyMap
    /\ portStore = EmptyMap
    /\ bridgePortStore = EmptyMap
    /\ queueStore = EmptyMap
    /\ pc = "idle"
    /\ rmId = 0
    /\ lastCall = Call("none", 0, {})
    /\ lastError = "none"
    /\ delta = NoDelta
    /\ query = NoQuery
    /\ translated = NoTranslation

MirrorInit ==
    /\ ingressMirror_ = NoMirror
    /\ egressMirror_ = NoMirror
    /\ attached = [d \in Directions |-> {}]
    /\ mpc = "idle"
    /\ mirrorCall = [called |-> FALSE, swMirrorName |-> NoMirror,
                     direction |-> "INGRESS", previous |-> NoMirror]
    /\ mirrorLog = << >>
    /\ mirrorError = "none"
    /\ dtor = NoDtor

BcmPortInit ==
    /\ transmitterTechnology_ = "UNKNOWN"
    /\ bcmCall = NoBcmCall
    /\ lastPortStats_ = BcmPortStatsOfQueues
    /\ pollCall = NoPoll
    /\ reader = NoReader
    /\ portName_ = ConstructedName
    /\ portCounters_ = reinitPortStat(ConstructedName)
    /\ histograms = reinitHistograms(ConstructedName)

Init ==
    /\ SaiInit
    /\ MirrorInit
    /\ mirrorTable = {}
    /\ BcmPortInit
    /\ hw = ColdBootHw
    /\ BusInit

\* A BcmPort on hardware in any state, with mirror A configured.
BcmInit ==
    /\ SaiInit
    /\ MirrorInit
    /\ mirrorTable = {"A"}
    /\ BcmPortInit
    /\ hw \in BootHw
    /\ BusInit

\* SaiPortManager under its single writer, called operation by operation.
Next ==
    \/ AddPort
    \/ ChangePort
    \/ RemovePort
    \/ RemovePortEraseHandle

Spec == Init /\ [][Next]_vars

\* One BaseWedgeI2CBus, called operation by operation.
BusNext == ModuleRead \/ IsPresent \/ ScanPresence

BusSpec == Init /\ [][BusNext]_vars

\* SaiPortManager under its single writer, with a thread that queries it.
QueryNext ==
    \/ QueryAddPort
    \/ QueryChangePort
    \/ RemovePort
    \/ RemovePortEraseHandle
    \/ QueryGetPortHandle
    \/ QueryUseHandle
    \/ QueryGetPortStats
    \/ QueryGetPortStatsNext

QuerySpec == Init /\ [][QueryNext]_vars

\* SaiPortManager under its single writer, with attributesFromSwPort called
\* between the operations.
TranslationNext ==
    \/ QueryAddPort
    \/ QueryChangePort
    \/ RemovePort
    \/ RemovePortEraseHandle
    \/ AttributesFromSwPort

TranslationSpec == Init /\ [][TranslationNext]_vars

\* SaiPortManager under its single writer, with a port whose lanes are those
\* of another port.
SharedKeyNext ==
    \/ QueryAddPort
    \/ QueryChangePort
    \/ RemovePort
    \/ RemovePortEraseHandle
    \/ AddAliasPort
    \/ RemoveAliasPort

SharedKeySpec == Init /\ [][SharedKeyNext]_vars

\* SaiPortManager under its single writer, driven by state deltas.
DeltaNext ==
    \/ ProcessPortDelta
    \/ ProcessPortDeltaStep
    \/ RemovePortEraseHandle

DeltaSpec == Init /\ [][DeltaNext]_vars

\* One BcmPort's mirror bindings and the mirror table.
MirrorNext ==
    \/ UpdateMirrorStop
    \/ UpdateMirrorSet
    \/ UpdateMirrorStart
    \/ MirrorAdded
    \/ MirrorDeleted

MirrorSpec == Init /\ [][MirrorNext]_vars

\* One BcmPort's mirror bindings up to and including its destruction.
TeardownNext ==
    \/ UpdateMirrorStop
    \/ UpdateMirrorSet
    \/ UpdateMirrorStart
    \/ MirrorAdded
    \/ MirrorDeleted
    \/ DtorIngress
    \/ DtorEgress
    \/ DtorRelease

TeardownSpec == Init /\ [][TeardownNext]_vars

\* One BcmPort programmed by the update thread.
BcmNext ==
    \/ Enable
    \/ Disable
    \/ Program

BcmSpec == BcmInit /\ [][BcmNext]_vars

(***************************************************************************)
(* Properties of SaiPortManager                                            *)
(***************************************************************************)
handlesAfter(swId) == { h \in handles_' : h.id = swId }

\* C1: addPort on a port id that already has a handle throws the
\* duplicate-resource error, and the call leaves handles_ (so the id still
\* maps to its original handle) and the reverse index as they were.
C1_AddExistingFails ==
    [][ (lastCall'.op = "addPort" /\ getPortHandle(lastCall'.id) # {})
          => /\ lastError' = "DuplicateResource"
             /\ handles_' = handles_
             /\ portIds' = portIds ]_vars

C1_Witness ==
    /\ lastCall.op = "addPort"
    /\ lastError = "DuplicateResource"
    /\ getPortHandle(lastCall.id) # {}
    /\ portIds # EmptyMap

\* C2: changePort on a port id without a handle throws the missing-resource
\* error and leaves the registry, the reverse index and the backend object
\* stores as they were.
C2_ChangeMissingFails ==
    [][ (lastCall'.op = "changePort" /\ getPortHandle(lastCall'.id) = {})
          => /\ lastError' = "MissingResource"
             /\ handles_' = handles_
             /\ portIds' = portIds
             /\ portStore' = portStore
             /\ bridgePortStore' = bridgePortStore
             /\ queueStore' = queueStore ]_vars

C2_Witness ==
    /\ lastCall.op = "changePort"
    /\ lastError = "MissingResource"
    /\ getPortHandle(lastCall.id) = {}
    /\ handles_ # {}

\* C3: removePort on a port id without a handle throws the missing-resource
\* error and modifies neither the registry nor the reverse index.
C3_RemoveMissingFails ==
    [][ (lastCall'.op = "removePort" /\ pc = "idle"
            /\ getPortHandle(lastCall'.id) = {})
          => /\ lastError' = "MissingResource"
             /\ pc' = "idle"
             /\ handles_' = handles_
             /\ portIds' = portIds ]_vars

C3_Witness ==
    /\ lastCall.op = "removePort"
    /\ lastError = "MissingResource"
    /\ getPortHandle(lastCall.id) = {}
    /\ handles_ # {}

addPortReturned == lastCall.op = "addPort" /\ lastError = "none"

\* C4 as stated: after a successful addPort(p) the handle of p.id is present
\* and the stats of p.id are all zero.
C4_StatsAllZero ==
    addPortReturned =>
        /\ getPortHandle(lastCall.id) # {}
        /\ lastCall.id \in DOMAIN getPortStats
        /\ \A c \in CounterNames : getPortStats[lastCall.id][c] = 0

\* C4, amended: after a successful addPort(p) the handle of p.id is present
\* and the stats hold an entry for p.id in which no counter has been
\* collected: every counter is STAT_UNINITIALIZED and there is no queue
\* counter.
C4_StatsUninitialized ==
    addPortReturned =>
        /\ getPortHandle(lastCall.id) # {}
        /\ lastCall.id \in DOMAIN getPortStats
        /\ \A c \in CounterNames :
              getPortStats[lastCall.id][c] = STAT_UNINITIALIZED
        /\ getPortStats[lastCall.id].queueOutBytes_ = << >>
        /\ getPortStats[lastCall.id].queueOutDiscardBytes_ = << >>

C4_Witness ==
    /\ addPortReturned
    /\ Cardinality(handles_) = MaxPorts

\* C5: removePort erases the reverse-index entry of the port before it
\* releases the handle: between the two steps the handle and its port object
\* still exist and the index no longer holds the port, and in every state each
\* port the reverse index holds is the live port of a registered handle.
C5_IndexErasedBeforeRelease ==
    /\ \A k \in DOMAIN portIds :
          /\ k \in DOMAIN portStore
          /\ \E h \in handles_ : h.port = k
    /\ pc = "removePort_erase_handle" =>
          /\ getPortHandle(rmId) # {}
          /\ \A h \in getPortHandle(rmId) :
                h.port \in DOMAIN portStore /\ h.port \notin DOMAIN portIds
    /\ pc \in {"idle", "removePort_erase_handle"}

C5_Witness ==
    /\ pc = "removePort_erase_handle"
    /\ getPortHandle(rmId) # {}
    /\ portIds # EmptyMap

\* C6: the registry holds at most one handle per port id, and every handle
\* in it references an existing port object, an existing bridge port and
\* existing queues, whatever calls succeeded or failed before.
C6_HandlesComplete ==
    /\ \A h1 \in handles_, h2 \in handles_ : h1.id = h2.id => h1 = h2
    /\ \A h \in handles_ :
          /\ h.port \in DOMAIN portStore
          /\ h.bridgePort # {}
          /\ h.bridgePort \subseteq DOMAIN bridgePortStore
          /\ queueKeys(h.port, h.queues) \subseteq DOMAIN queueStore

C6_Witness ==
    /\ lastError = "BackendRejected"
    /\ Cardinality(handles_) = MaxPorts
    /\ \E h \in handles_ : h.queues # {}

\* C8 as stated: a changePort(p) that returns leaves the handle's port object
\* the one it was, carrying the attributes translated from p, and the
\* handle's queues are those of p.
C8_ChangedInPlace ==
    [][ (lastCall'.op = "changePort" /\ lastError' = "none")
          => \A p \in lastCall'.swPort :
               /\ getPortHandle(p.id) # {}
               /\ \A h \in getPortHandle(p.id) :
                    \E h2 \in handlesAfter(p.id) :
                      /\ h2.port = h.port
                      /\ h2.port \in DOMAIN portStore'
                      /\ portStore'[h2.port].attributes = attributesFromSwPort(p)
                      /\ h2.queues = p.portQueues
                      /\ queueKeys(h2.port, h2.queues) \subseteq DOMAIN queueStore'
      ]_vars

(***************************************************************************)
(* Properties of processPortDelta                                          *)
(***************************************************************************)
opFor(cls) ==
    CASE cls = "added" -> "addPort"
      [] cls = "changed" -> "changePort"
      [] cls = "removed" -> "removePort"
      [] OTHER -> "none"

deltaIds == DOMAIN delta.old \cup DOMAIN delta.new

isPrefix(s, t) == Len(s) <= Len(t) /\ \A i \in 1..Len(s) : s[i] = t[i]

\* What a call that found `previous` bound and binds `name` is to issue.
rebindActions(previous, name, direction) ==
    (IF previous # NoMirror
       THEN << MirrorAction("STOP", previous, direction) >> ELSE << >>)
    \o (IF name # NoMirror
          THEN << MirrorAction("START", name, direction) >> ELSE << >>)

\* C9: an updateMirror that finds session A bound and binds B issues STOP
\* against A, then START against B, and nothing else; one that binds no
\* session issues only the STOP against the session bound before, no START,
\* and leaves no binding recorded.  At every point of the call the actions
\* issued so far are a prefix of that sequence.
C9_StopBeforeStart ==
    mirrorCall.called =>
      LET expected == rebindActions(mirrorCall.previous, mirrorCall.swMirrorName,
                                    mirrorCall.direction)
      IN  /\ isPrefix(mirrorLog, expected)
          /\ (mpc = "idle" /\ mirrorError = "none") =>
                /\ mirrorLog = expected
                /\ boundMirror(mirrorCall.direction) = mirrorCall.swMirrorName

C9_Witness ==
    /\ mirrorCall.called /\ mpc = "idle" /\ mirrorError = "none"
    /\ mirrorCall.previous = "A" /\ mirrorCall.swMirrorName = "B"
    /\ mirrorCall.direction = "INGRESS"
    /\ mirrorLog = << MirrorAction("STOP", "A", "INGRESS"),
                      MirrorAction("START", "B", "INGRESS") >>
    /\ attached["INGRESS"] = {"B"}

\* C10: in every state, between the steps of a rebind and after a failed
\* mirror action included, the port is attached to at most one mirror
\* session in each direction.
C10_AtMostOneSession ==
    \A d \in Directions : Cardinality(attached[d]) <= 1

C10_Witness ==
    /\ mirrorError = "BackendRejected"
    /\ mirrorCall.previous # NoMirror
    /\ mirrorCall.swMirrorName \notin {NoMirror, mirrorCall.previous}
    /\ Len(mirrorLog) = 2
    /\ attached[mirrorCall.direction] = {}

(***************************************************************************)
(* Properties of the mirror teardown                                       *)
(***************************************************************************)
\* The step issues a STOP in direction d: the first statement of
\* updateMirror, or one of the two statements of the destructor.
stopStep(d) ==
    \/ /\ mpc = "idle" /\ mirrorTable' = mirrorTable /\ dtor' = dtor
       /\ mirrorCall'.called /\ mirrorCall'.direction = d
    \/ mpc = "idle" /\ dtor'.started /\ d = "INGRESS"
    \/ mpc = "dtor_egress" /\ d = "EGRESS"

\* The session recorded for direction d is stopped already or deleted.
sessionGone(d) ==
    /\ boundMirror(d) # NoMirror
    /\ boundMirror(d) \notin mirrorTable \/ boundMirror(d) \notin attached[d]

\* C11: a STOP issued for a recorded binding whose session is already
\* stopped, or deleted from the mirror table, is a no-op that succeeds: no
\* error, the process goes on, and so does the rebind or teardown.
C11_StopOfGoneSessionSucceeds ==
    [][\A d \in Directions :
         (stopStep(d) /\ sessionGone(d)) =>
            /\ mirrorError' = "none"
            /\ mpc' \in {"set", "dtor_egress", "dtor_members"}
            /\ attached' = attached]_vars

dtorStopped(d) ==
    LET name == IF d = "INGRESS" THEN dtor.ingress ELSE dtor.egress
    IN  name # NoMirror =>
          \E i \in 1..Len(mirrorLog) : mirrorLog[i] = MirrorAction("STOP", name, d)

\* C12: the removal of a port issues STOP for every direction that has a
\* binding, and has issued each of them by the time the port object is
\* released.
C12_RemovalStopsBoundDirections ==
    dtor.started =>
      /\ mpc \in {"destroyed", "aborted"} => \A d \in Directions : dtorStopped(d)
      /\ dtor.released => (mpc = "destroyed" /\ \A d \in Directions : dtorStopped(d))

\* C13: when the teardown of a port is over, STOP has been issued for the
\* ingress and for the egress binding, also when the STOP of the ingress
\* direction failed.
C13_BothDirectionsStopped ==
    (dtor.started /\ mpc \notin {"dtor_egress", "dtor_members"}) =>
       (dtorStopped("INGRESS") /\ dtorStopped("EGRESS"))

\* The interface mode looked up for any speed and transmitter.
InterfaceModeNext ==
    \/ GetDesiredInterfaceMode
    \/ SetSpeed

\* A BcmPort on hardware in any state, also one that runs at the speed
\* without an entry.
InterfaceModeInit ==
    /\ SaiInit
    /\ MirrorInit
    /\ mirrorTable = {"A"}
    /\ BcmPortInit
    /\ hw \in BootHw \cup
                { [ColdBootHw EXCEPT !.enabled = TRUE,
                                     !.speed = UnsupportedSpeed] }
    /\ BusInit

InterfaceModeSpec == InterfaceModeInit /\ [][InterfaceModeNext]_vars

\* The statistics of one BcmPort polled and re-initialised.
StatsNext ==
    \/ Poll
    \/ ReinitPortStats

StatsSpec == Init /\ [][StatsNext]_vars

\* The statistics of one BcmPort polled and the port renamed.
NameNext ==
    \/ Poll
    \/ UpdateName

NameSpec == Init /\ [][NameNext]_vars

\* The statistics of one BcmPort polled while a thread reads them.
SnapshotNext ==
    \/ Poll
    \/ GetPortStats
    \/ GetTimeRetrieved

SnapshotSpec == Init /\ [][SnapshotNext]_vars

\* The transmitter technology of one port looked up again and again.
TechnologyNext ==
    \/ GetTransmitterTechnology
    \/ TransceiverChanged

TechnologySpec == BcmInit /\ [][TechnologyNext]_vars

(***************************************************************************)
(* BcmPort::enable, disable and program                                    *)
(***************************************************************************)
\* The writes of the enable that has just returned after another enable.
secondEnable == bcmCall.op = "enable" /\ bcmCall.previous # {}
firstWrites == TheOne(bcmCall.previous)
secondWrites == Writes(bcmCall.log, bcmCall.error)

\* C14 as stated: two enables in succession issue the speed write and the
\* interface-mode write at most once each in total, also when the first of
\* them fails.
C14_WritesAtMostOnceInTotal ==
    secondEnable =>
        /\ firstWrites.speedSets + secondWrites.speedSets <= 1
        /\ firstWrites.interfaceSets + secondWrites.interfaceSets <= 1

\* C14 as the code has it: each enable issues the speed write and the
\* interface-mode write at most once, and two enables in succession issue
\* each at most once in total when the first of them returns without error.
C14_WritesAtMostOnceAfterSuccess ==
    /\ bcmCall.op = "enable" =>
           /\ secondWrites.speedSets <= 1
           /\ secondWrites.interfaceSets <= 1
    /\ secondEnable /\ ~firstWrites.failed =>
           /\ firstWrites.speedSets + secondWrites.speedSets <= 1
           /\ firstWrites.interfaceSets + secondWrites.interfaceSets <= 1

\* A first enable wrote speed and interface mode and returned, and a second
\* enable has returned.
C14_Witness ==
    /\ secondEnable
    /\ ~firstWrites.failed
    /\ firstWrites.speedSets = 1
    /\ firstWrites.interfaceSets = 1
    /\ bcmCall.error = "none"


\* The operation op is called in a state where the admin state of the port
\* in hardware is enabled.
calledOn(op, enabled) == bcmCall'.op = op /\ hw.enabled = enabled

\* The call does nothing but read the admin state.
onlyReadsAdminState ==
    /\ bcmCall'.log = <<"port_enable_get">>
    /\ hw' = hw
    /\ attached' = attached
    /\ UNCHANGED <<transmitterTechnology_, ingressMirror_, egressMirror_>>

\* C15: enable of a port that the hardware reports enabled and disable of a
\* port that the hardware reports disabled write nothing to the hardware and
\* change nothing in the BcmPort, whatever admin state the configuration
\* has; when the hardware reports the other state the call that returns
\* has written the admin state.
C15_NoOpDecidedByHardware ==
    [][ /\ (calledOn("enable", TRUE) \/ calledOn("disable", FALSE))
            => onlyReadsAdminState
        /\ ( /\ calledOn("enable", FALSE) \/ calledOn("disable", TRUE)
             /\ bcmCall'.error = "none" )
            => "port_enable_set" \in Range(bcmCall'.log) ]_vars

\* enable has returned at once on a port that is enabled in hardware and
\* disabled in the configuration.
C15_Witness ==
    /\ bcmCall.op = "enable"
    /\ bcmCall.log = <<"port_enable_get">>
    /\ bcmCall.error = "none"
    /\ hw.enabled
    /\ \E swPort \in bcmCall.swPort : swPort.adminState = "DISABLED"

\* The calls of each step of enable and disable.
VlanCalls == {"vlan_port_add", "port_vlan_member_set", "vlan_port_remove"}
SamplingCalls == {"setSflowRates", "disableSflow"}
CounterCalls == {"port_stat_enable_set"}
AdminCalls == {"port_enable_set"}
OtherAttributeCalls ==
    {"port_untagged_vlan_get", "port_untagged_vlan_set", "setPortResource",
     "port_speed_max", "port_speed_get", "getTransmitterTech",
     "port_interface_get", "port_interface_set", "port_speed_set", "setFEC",
     "mirror_stop", "mirror_start", "setPause", "setTxSetting",
     "setLoopbackMode"}

\* In log, calls of A and calls of B are issued, and every call of A before
\* every call of B.
Precedes(log, A, B) ==
    /\ \E i \in 1..Len(log) : log[i] \in A
    /\ \E j \in 1..Len(log) : log[j] \in B
    /\ \A i, j \in 1..Len(log) : log[i] \in A /\ log[j] \in B => i < j

\* The operation op has returned without error after going past its early
\* return.
wentThrough(op) ==
    /\ bcmCall.op = op
    /\ bcmCall.error = "none"
    /\ Len(bcmCall.log) > 1

\* C16 as stated: a successful enable of an admin-down port sets VLAN
\* membership, then the attributes, then enables counter collection, then
\* sets the sampling rate, then writes admin-up.
C16_SamplingAfterCounters ==
    wentThrough("enable") =>
        /\ Precedes(bcmCall.log, VlanCalls, OtherAttributeCalls)
        /\ Precedes(bcmCall.log, OtherAttributeCalls, CounterCalls)
        /\ Precedes(bcmCall.log, CounterCalls, SamplingCalls)
        /\ Precedes(bcmCall.log, SamplingCalls, AdminCalls)

\* C16 as the code has it: a successful enable of an admin-down port sets
\* VLAN membership, then the attributes, the sampling rate last but one of
\* them (before the loopback mode), then enables counter collection, then
\* writes admin-up.
C16_SamplingWithAttributes ==
    wentThrough("enable") =>
        /\ bcmCall.log[1] = "port_enable_get"
        /\ Precedes(bcmCall.log, VlanCalls,
                    OtherAttributeCalls \cup SamplingCalls)
        /\ Precedes(bcmCall.log, OtherAttributeCalls \ {"setLoopbackMode"},
                    SamplingCalls)
        /\ Precedes(bcmCall.log, SamplingCalls, {"setLoopbackMode"})
        /\ Precedes(bcmCall.log, OtherAttributeCalls \cup SamplingCalls,
                    CounterCalls)
        /\ Precedes(bcmCall.log, CounterCalls, AdminCalls)
        /\ bcmCall.log[Len(bcmCall.log)] = "port_enable_set"

\* enable has gone through all its steps on a port that was admin-down, and
\* has written the speed on the way.
C16_Witness ==
    /\ wentThrough("enable")
    /\ "port_speed_set" \in Range(bcmCall.log)
    /\ hw.enabled /\ hw.statEnabled /\ hw.sflow

\* C17 as stated: a successful disable of an admin-up port removes VLAN
\* membership, then stops sampling, then stops counter collection, then
\* writes admin-down.
C17_SamplingStoppedFirst ==
    wentThrough("disable") =>
        /\ Precedes(bcmCall.log, VlanCalls, SamplingCalls)
        /\ Precedes(bcmCall.log, SamplingCalls, CounterCalls)
        /\ Precedes(bcmCall.log, CounterCalls, AdminCalls)

\* C17 as the code has it: a successful disable of an admin-up port removes
\* VLAN membership, then stops counter collection, then stops sampling, then
\* writes admin-down, and calls nothing else after the read.
C17_CountersStoppedFirst ==
    wentThrough("disable") =>
        /\ bcmCall.log[1] = "port_enable_get"
        /\ Precedes(bcmCall.log, VlanCalls, CounterCalls)
        /\ Precedes(bcmCall.log, CounterCalls, SamplingCalls)
        /\ Precedes(bcmCall.log, SamplingCalls, AdminCalls)
        /\ Range(bcmCall.log) \subseteq
               {"port_enable_get"} \cup VlanCalls \cup CounterCalls
                   \cup SamplingCalls \cup AdminCalls

\* disable has gone through all its steps on a port that was admin-up.
C17_Witness ==
    /\ wentThrough("disable")
    /\ ~hw.enabled /\ ~hw.statEnabled /\ ~hw.sflow /\ hw.vlans = {}

\* The speed and the interface mode the configuration swPort asks of the
\* port in the current state.
desiredSpeedNow(swPort) ==
    IF swPort.speed = "DEFAULT" THEN hw.maxSpeed ELSE swPort.speed
desiredModeNow(swPort) ==
    kPortTypeMapping[desiredSpeedNow(swPort)][
        IF transmitterTechnology_ # "UNKNOWN" THEN transmitterTechnology_
                                              ELSE hw.tech]

\* The call that is made in this step reads the speed and finds it equal to
\* the desired one, for a configuration that satisfies up.
speedFoundEqual(up(_)) ==
    \E swPort \in bcmCall'.swPort :
        /\ up(swPort)
        /\ \E i \in 1..Len(bcmCall'.log) :
               /\ bcmCall'.log[i] = "port_speed_get"
               /\ i < Len(bcmCall'.log) \/ bcmCall'.error = "none"
        /\ hw.speed = desiredSpeedNow(swPort)

\* The port is administratively up, in the configuration and in hardware.
adminUp(swPort) == swPort.adminState = "ENABLED" /\ hw.enabled

\* C18 as stated: when the speed read equals the desired speed and the port
\* is administratively up, whatever its link state, setSpeed does not write
\* the interface mode.
C18_NoModeWriteWhenAdminUp ==
    [][ speedFoundEqual(adminUp)
            => "port_interface_set" \notin Range(bcmCall'.log) ]_vars

\* C18 as the code has it: when the speed read equals the desired speed and
\* the port is up (enabled and link up), setSpeed does not call
\* setInterfaceMode and writes neither interface mode nor speed.
C18_NoModeWriteWhenUp ==
    [][ speedFoundEqual(isPortUp)
            => Range(bcmCall'.log) \cap {"port_interface_get",
                   "port_interface_set", "port_speed_set"} = {} ]_vars

\* program has run setSpeed on an up port whose speed was already the
\* desired one, and has gone on without touching the interface mode.
C18_Witness ==
    /\ bcmCall.op = "program"
    /\ bcmCall.error = "none"
    /\ \E swPort \in bcmCall.swPort :
           isPortUp(swPort) /\ hw.speed = desiredSpeedNow(swPort)
    /\ "port_speed_get" \in Range(bcmCall.log)
    /\ "port_interface_get" \notin Range(bcmCall.log)
    /\ "setFEC" \in Range(bcmCall.log)

\* In the call made in this step every set is issued after get.
readBefore(get, set) ==
    \A j \in 1..Len(bcmCall'.log) :
        bcmCall'.log[j] = set
            => \E i \in 1..(j - 1) : bcmCall'.log[i] = get

\* In the call made in this step, for a configuration that satisfies
\* gated, the speed and the interface mode are written only when they differ
\* from the desired ones.
writesOnlyChanges(gated(_)) ==
    \A swPort \in bcmCall'.swPort :
        gated(swPort) =>
            /\ "port_speed_set" \in Range(bcmCall'.log)
                   => hw.speed # desiredSpeedNow(swPort)
            /\ "port_interface_set" \in Range(bcmCall'.log)
                   => hw.ifMode # desiredModeNow(swPort)

anyPort(swPort) == TRUE

\* C19 as stated: a write of speed or interface mode comes after a read of
\* the same value in the same operation, and is skipped when the value read
\* is the desired one, in any admin or link state.
C19_WritesSkippedInAnyState ==
    [][ /\ readBefore("port_speed_get", "port_speed_set")
        /\ readBefore("port_interface_get", "port_interface_set")
        /\ writesOnlyChanges(anyPort) ]_vars

\* C19 as the code has it: a write of speed or interface mode comes after a
\* read of the same value in the same operation; for a port that is up it is
\* skipped when the value read is the desired one, and for a port that is
\* down or disabled a setSpeed that returns has issued both writes.
C19_WritesSkippedWhenUp ==
    [][ /\ readBefore("port_speed_get", "port_speed_set")
        /\ readBefore("port_interface_get", "port_interface_set")
        /\ writesOnlyChanges(isPortUp)
        /\ \A swPort \in bcmCall'.swPort :
               ( /\ ~isPortUp(swPort)
                 /\ "setFEC" \in Range(bcmCall'.log) )
                => /\ "port_interface_set" \in Range(bcmCall'.log)
                   /\ "port_speed_set" \in Range(bcmCall'.log) ]_vars

\* An up port whose speed was not the desired one has been given it, and
\* its interface mode, already the desired one, was read and not written.
C19_Witness ==
    /\ bcmCall.error = "none"
    /\ \E swPort \in bcmCall.swPort : isPortUp(swPort)
    /\ "port_speed_set" \in Range(bcmCall.log)
    /\ "port_interface_get" \in Range(bcmCall.log)
    /\ "port_interface_set" \notin Range(bcmCall.log)

\* C20: for a speed s of the table and the transmitter technology t of the
\* port, getDesiredInterfaceMode returns the entry for (s, t) when the table
\* has one and the entry for (s, UNKNOWN) when it has none, and does not
\* fail.
C20_FallsBackToUnknown ==
    bcmCall.op = "getDesiredInterfaceMode" /\ bcmCall.error # "BcmError" =>
        LET s == bcmCall.speed
            t == transmitterTechnology_
        IN  /\ bcmCall.error = "none"
            /\ bcmCall.value =
                   IF t \in DOMAIN kPortTypeMapping[s]
                     THEN kPortTypeMapping[s][t]
                     ELSE kPortTypeMapping[s]["UNKNOWN"]

(***************************************************************************)
(* The lookup of the interface mode and of the transmitter technology      *)
(***************************************************************************)
\* setSpeed has been called for the speed without an entry.
setSpeedUnsupported(swPort) ==
    /\ bcmCall.op = "setSpeed"
    /\ swPort \in bcmCall.swPort
    /\ swPort.speed = UnsupportedSpeed

\* C21: when the table has no entry for the desired speed, the lookup that
\* setSpeed makes (for a port that is not up, or whose speed read differs)
\* ends setSpeed with the error of getDesiredInterfaceMode, and setSpeed
\* writes neither the interface mode nor the speed.
C21_UnsupportedSpeedFails ==
    \A swPort \in bcmCall.swPort :
        setSpeedUnsupported(swPort) =>
            /\ Range(bcmCall.log) \cap
                   {"port_interface_set", "port_speed_set"} = {}
            /\ ~isPortUp(swPort) \/ hw.speed # UnsupportedSpeed
                   => bcmCall.error = "FbossError"

\* setSpeed has thrown the error of the lookup for an up port after reading
\* a speed that differs.
C21_Witness ==
    \E swPort \in bcmCall.swPort :
        /\ setSpeedUnsupported(swPort)
        /\ isPortUp(swPort)
        /\ bcmCall.error = "FbossError"
        /\ "port_speed_get" \in Range(bcmCall.log)
        /\ hw.speed # UnsupportedSpeed

\* The state is the one a call of getTransmitterTechnology has left.
techCalled == bcmCall.op = "getTransmitterTechnology"

\* This step is a call of getTransmitterTechnology.
techCall == bcmCall'.op = "getTransmitterTechnology" /\ hw' = hw

\* C22 as stated: over the calls of getTransmitterTechnology on a port the
\* platform is queried at most once, and a call that returns gives the
\* value the first call gave, be it COPPER, OPTICAL or UNKNOWN.
C22_ProbedOnceWhateverTheValue ==
    techCalled =>
        /\ ~bcmCall.reprobed
        /\ bcmCall.error = "none" => bcmCall.value \in bcmCall.first

\* C22 as the code has it: once the technology is known to be COPPER or
\* OPTICAL a call does not query the platform, returns that value and keeps
\* it; while it is UNKNOWN, a call for a port that is not a backplane port
\* queries the platform again.
C22_ProbedUntilKnown ==
    [][ techCall =>
          IF transmitterTechnology_ # "UNKNOWN"
            THEN /\ bcmCall'.log = << >>
                 /\ bcmCall'.error = "none"
                 /\ bcmCall'.value = transmitterTechnology_
                 /\ transmitterTechnology_' = transmitterTechnology_
            ELSE isFabricName(bcmCall'.name)
                   \/ bcmCall'.log = <<"getTransmitterTech">> ]_vars

\* The technology was resolved by a query, the transceiver has changed
\* since, and a later call has returned the value of the first without a
\* query.
C22_Witness ==
    /\ techCalled
    /\ bcmCall.probed
    /\ bcmCall.log = << >>
    /\ bcmCall.value \in bcmCall.first
    /\ bcmCall.value # hw.tech

\* C23: a call of getTransmitterTechnology for a port whose technology is
\* not resolved and whose name starts with "fab" returns COPPER, memoises
\* it, and does not query the platform.
C23_FabricIsCopper ==
    [][ /\ techCall
        /\ transmitterTechnology_ = "UNKNOWN"
        /\ bcmCall'.name = "fab1/1/1"
        => /\ bcmCall'.value = "COPPER"
           /\ bcmCall'.error = "none"
           /\ bcmCall'.log = << >>
           /\ transmitterTechnology_' = "COPPER" ]_vars

\* The first call for a backplane port has returned COPPER without a query,
\* where the platform would have answered otherwise.
C23_Witness ==
    /\ techCalled
    /\ bcmCall.name = "fab1/1/1"
    /\ bcmCall.first = {"COPPER"}
    /\ ~bcmCall.probed
    /\ hw.tech = "OPTICAL"

\* C24: when the query of the platform fails, getTransmitterTechnology
\* returns UNKNOWN and throws nothing.
C24_ProbeFailureYieldsUnknown ==
    /\ techCalled
    /\ "getTransmitterTech" \in Range(bcmCall.log)
    /\ bcmCall.fail = "getTransmitterTech"
    => /\ bcmCall.error = "none"
       /\ bcmCall.value = "UNKNOWN"

(***************************************************************************)
(* BcmPort::updateStats: the non pause discards                            *)
(***************************************************************************)
\* This step is an updateStats.
pollStep == pollCall'.called /\ reader' = reader

\* The cumulative value a snapshot shows, nothing collected counting as 0.
nonPauseDiscards(snapshot) ==
    IF snapshot.portStats_.inNonPauseDiscards_ = STAT_UNINITIALIZED
      THEN 0
      ELSE snapshot.portStats_.inNonPauseDiscards_

\* C25: a poll with the MMU lossy, after a snapshot with inDiscards and
\* inPause collected, that finds both counters not below that snapshot,
\* publishes the previous cumulative non pause discards (0 if none) plus
\* max(0, discards since - pauses since); a poll with the MMU not lossy, or
\* the first poll, accumulates nothing and publishes no value.
C25_NonPauseDiscardsAccumulate ==
    [][ pollStep =>
          LET prev == lastPortStats_.portStats_
              cur == lastPortStats_'.portStats_
              deltaDiscards == cur.inDiscards_ - prev.inDiscards_
              deltaPause == cur.inPause_ - prev.inPause_
          IN  /\ ( /\ pollCall'.lossy
                   /\ prev.inDiscards_ # STAT_UNINITIALIZED
                   /\ prev.inPause_ # STAT_UNINITIALIZED
                   /\ deltaDiscards >= 0
                   /\ deltaPause >= 0 )
                  => cur.inNonPauseDiscards_ =
                         nonPauseDiscards(lastPortStats_)
                             + Max(0, deltaDiscards - deltaPause)
              /\ (~pollCall'.lossy \/ pollCall'.first)
                  => cur.inNonPauseDiscards_ = STAT_UNINITIALIZED ]_vars

\* The cumulative value has grown to the largest a counter is read with and
\* a later poll has counted pause frames.
C25_Witness ==
    /\ pollCall.called /\ pollCall.lossy /\ ~pollCall.first
    /\ lastPortStats_.portStats_.inNonPauseDiscards_ = MaxCounter
    /\ lastPortStats_.portStats_.inPause_ > 0

\* The first poll since the statistics were initialised was made with the
\* MMU lossy.
firstLossyPoll == pollCall.called /\ pollCall.first /\ pollCall.lossy

\* C26 as stated: after the first poll with the MMU lossy the snapshot shows
\* 0 non pause discards.
C26_ZeroAfterFirstPoll ==
    firstLossyPoll => lastPortStats_.portStats_.inNonPauseDiscards_ = 0

\* C26 as the code has it: after the first poll with the MMU lossy the
\* snapshot shows STAT_UNINITIALIZED for the non pause discards.
C26_UninitializedAfterFirstPoll ==
    firstLossyPoll =>
        lastPortStats_.portStats_.inNonPauseDiscards_ = STAT_UNINITIALIZED

\* The first poll with the MMU lossy has read discards and no pause frame.
C26_Witness ==
    /\ firstLossyPoll
    /\ lastPortStats_.portStats_.inDiscards_ = MaxCounter
    /\ lastPortStats_.portStats_.inPause_ = 0

\* C27 as stated: every snapshot a poll publishes shows a non pause discards
\* value that is not negative.
C27_NeverNegative ==
    pollCall.called => lastPortStats_.portStats_.inNonPauseDiscards_ >= 0

\* C27 as the code has it: every snapshot shows either STAT_UNINITIALIZED or
\* a value that is not negative.
C27_UninitializedOrNotNegative ==
    \/ lastPortStats_.portStats_.inNonPauseDiscards_ = STAT_UNINITIALIZED
    \/ lastPortStats_.portStats_.inNonPauseDiscards_ >= 0

\* A poll with more pause frames than discards has published a value.
C27_Witness ==
    /\ pollCall.called /\ pollCall.lossy /\ ~pollCall.first
    /\ lastPortStats_.portStats_.inNonPauseDiscards_ = 0
    /\ lastPortStats_.portStats_.inDiscards_ = 0
    /\ lastPortStats_.portStats_.inPause_ = MaxCounter

\* C28: from one published snapshot to the next, with no re-initialisation
\* between, the cumulative non pause discards do not decrease.
C28_NeverDecreases ==
    [][ pollStep /\ ~pollCall'.first
            => nonPauseDiscards(lastPortStats_')
                   >= nonPauseDiscards(lastPortStats_) ]_vars

(***************************************************************************)
(* BcmPort::getPortStats and BcmPort::getTimeRetrieved beside updateStats  *)
(***************************************************************************)
\* C29: a reader that has read the counters and then the collection time of
\* a port, with polls running beside it, holds the counters and the time of
\* one and the same snapshot.
C29_ReaderSeesOneSnapshot ==
    reader.pc = "done" => reader.timeRetrieved = reader.fromTime

(***************************************************************************)
(* getPortHandle and getPortStats beside the writer                        *)
(***************************************************************************)
\* C30: a query running beside addPort, changePort and removePort never
\* reads a handle that has been released.
C30_QueryNeverReadsReleasedHandle == query.read # "released"

(***************************************************************************)
(* BaseWedgeI2CBus                                                         *)
(***************************************************************************)
\* The modules a device call of the last operation failed for, and the
\* modules a device call was made for.
failedModules ==
    { bus.log[i].module : i \in busCall.fails \cap (1..Len(bus.log)) }

probedModules == { bus.log[i].module : i \in 1..Len(bus.log) }

\* C31: isPresent for a module throws nothing and returns whether no device
\* call failed; scanPresence throws nothing, probes every requested module,
\* and sets it ABSENT when a device call for that module failed and PRESENT
\* otherwise.
C31_ProbeDowngradesFailure ==
    /\ (busCall.op = "isPresent" /\ busCall.module > 0)
          => /\ bus.error = "none"
             /\ busCall.value = {failedModules = {}}
    /\ busCall.op = "scanPresence"
          => /\ bus.error = "none"
             /\ \A presences \in busCall.value :
                  /\ DOMAIN presences = busCall.requested
                  /\ \A key \in busCall.requested :
                       /\ key + 1 \in probedModules
                       /\ presences[key] = IF key + 1 \in failedModules
                                             THEN "ABSENT" ELSE "PRESENT"

\* A scan of two modules has found the read of the first failing and the
\* second module present.
C31_Witness ==
    /\ busCall.op = "scanPresence"
    /\ busCall.value = {[key \in {0, 1} |->
                           IF key = 0 THEN "ABSENT" ELSE "PRESENT"]}
    /\ \E i \in busCall.fails :
         i <= Len(bus.log) /\ bus.log[i].op = "read" /\ bus.log[i].module = 1

\* The reads and the offset writes of the last operation, in order.
transfers ==
    SelectSeq(bus.log, LAMBDA call : call.op \in {"read", "writeByte"})

\* C38: every read the bus issues on the device transfers at most 128 bytes,
\* and a request of more than 128 bytes is served by a read of 128 bytes at
\* offset followed by a read of the rest at offset + 128.
C38_ReadsAtMost128Bytes ==
    busCall.op = "moduleRead" =>
        /\ \A i \in 1..Len(bus.log) :
             bus.log[i].op = "read" => bus.log[i].len <= 128
        /\ (busCall.len > 128 /\ bus.error = "none")
             => /\ Len(transfers) = 4
                /\ transfers[1].op = "writeByte"
                /\ transfers[1].value = busCall.offset
                /\ transfers[2].op = "read" /\ transfers[2].len = 128
                /\ transfers[3].op = "writeByte"
                /\ transfers[3].value = busCall.offset + 128
                /\ transfers[4].op = "read"
                /\ transfers[4].len = busCall.len - 128

(***************************************************************************)
(* SaiPortManager::attributesFromSwPort                                    *)
(***************************************************************************)
\* The speeds attributesFromSwPort has a case for.
hasSpeedMapping(swPort) == swPort.speed \in {"TWENTYFIVEG", "HUNDREDG"}

\* C32: addPort or changePort for a port whose speed has no mapping returns
\* an error, and no port is in the store with another speed in its place.
C32_UnmappedSpeedIsRejected ==
    /\ ( /\ lastCall.op \in {"addPort", "changePort"}
         /\ \E swPort \in lastCall.swPort : ~hasSpeedMapping(swPort) )
          => lastError # "none"
    /\ \A key \in DOMAIN portStore : portStore[key].attributes.speed # 0

\* What the attributes must show for the port they are translated from.
translates(swPort, attributes) ==
    /\ attributes.adminState = (swPort.adminState = "ENABLED")
    /\ attributes.fecMode = IF swPort.fec = "ON" THEN "SAI_PORT_FEC_MODE_RS"
                                                 ELSE "SAI_PORT_FEC_MODE_NONE"
    /\ attributes.internalLoopbackMode =
         [NONE |-> "SAI_PORT_INTERNAL_LOOPBACK_MODE_NONE",
          PHY |-> "SAI_PORT_INTERNAL_LOOPBACK_MODE_PHY",
          MAC |-> "SAI_PORT_INTERNAL_LOOPBACK_MODE_MAC"][swPort.loopbackMode]
    /\ attributes.globalFlowControlMode =
         CASE swPort.pause = [tx |-> TRUE, rx |-> TRUE] ->
                  "SAI_PORT_FLOW_CONTROL_MODE_BOTH_ENABLE"
           [] swPort.pause = [tx |-> TRUE, rx |-> FALSE] ->
                  "SAI_PORT_FLOW_CONTROL_MODE_TX_ONLY"
           [] swPort.pause = [tx |-> FALSE, rx |-> TRUE] ->
                  "SAI_PORT_FLOW_CONTROL_MODE_RX_ONLY"
           [] swPort.pause = [tx |-> FALSE, rx |-> FALSE] ->
                  "SAI_PORT_FLOW_CONTROL_MODE_DISABLE"

structures == <<portCounters_, histograms>>

\* This step is an updateName, called with newName.
nameStep(newName) ==
    /\ bcmCall' # bcmCall
    /\ bcmCall'.op = "updateName"
    /\ bcmCall'.swPort = {newName}

\* C34: the structures and the initial snapshot are set up again only by an
\* updateName with a name other than the port's; an updateName with the
\* port's name changes nothing, an updateStats changes no structure, and an
\* updateName with another name exports every structure under the new name
\* and puts the initial snapshot in place of the current one.
C34_ReinitOnlyOnNewName ==
    [][ /\ ( \/ structures' # structures
             \/ (lastPortStats_' = BcmPortStatsOfQueues
                   /\ lastPortStats_ # BcmPortStatsOfQueues) )
           => \E newName \in NewNames \ {portName_} : nameStep(newName)
        /\ nameStep(portName_)
           => UNCHANGED <<portName_, structures, lastPortStats_>>
        /\ pollStep /\ pollCall' # pollCall => structures' = structures
        /\ \A newName \in NewNames \ {portName_} :
             nameStep(newName)
               => /\ lastPortStats_' = BcmPortStatsOfQueues
                  /\ \A key \in DOMAIN portCounters_' :
                       portCounters_'[key][1] = newName
                  /\ histograms'.inPktLengths_.name[1] = newName
                  /\ histograms'.outPktLengths_.name[1] = newName
                  /\ histograms'.outQueueLen_[1] = newName ]_vars

\* The port has been polled under its new name and then been given the
\* same name again: the snapshot of the poll is still the current one.
C34_Witness ==
    /\ bcmCall.op = "updateName"
    /\ bcmCall.swPort = {"eth1/1/1"} /\ bcmCall.previous = {"eth1/1/1"}
    /\ pollCall.called /\ pollCall.since = "reinitPortStats"
    /\ lastPortStats_ # BcmPortStatsOfQueues

(***************************************************************************)
(* ConcurrentIndices::portIds after the writer's operations                *)
(***************************************************************************)
\* C35: between two operations of the writer the reverse index holds, for
\* every registered handle, the handle's port under the handle's port id,
\* one entry a handle, and nothing else.
C35_IndexMatchesHandles ==
    Idle =>
        /\ DOMAIN portIds = { h.port : h \in handles_ }
        /\ \A h \in handles_ : portIds[h.port] = h.id
        /\ Cardinality(DOMAIN portIds) = Cardinality(handles_)

(***************************************************************************)
(* BcmPort::enable: the admin-up write                                     *)
(***************************************************************************)
\* The calls enable has made before its call number j.
callsBefore(j) == { bcmCall.log[i] : i \in 1..(j - 1) }

\* C36: enable writes admin-up as its last call, after VLAN membership, the
\* last step of program and the enabling of counter collection; when a call
\* of one of those steps fails, enable throws, has written no admin-up, and
\* the port is admin-down in hardware.
C36_AdminUpAfterAllSteps ==
    bcmCall.op = "enable" =>
        /\ \A j \in 1..Len(bcmCall.log) :
             bcmCall.log[j] = "port_enable_set"
               => /\ j = Len(bcmCall.log)
                  /\ {"vlan_port_add", "port_vlan_member_set",
                      "setLoopbackMode", "port_stat_enable_set"}
                        \subseteq callsBefore(j)
        /\ ( /\ bcmCall.error # "none"
             /\ bcmCall.log[Len(bcmCall.log)]
                  \notin {"port_enable_get", "port_enable_set"} )
             => /\ "port_enable_set" \notin Range(bcmCall.log)
                /\ ~hw.enabled

\* enable has added the port to its VLANs and has failed in program, on the
\* write of the speed.
C36_Witness ==
    /\ bcmCall.op = "enable"
    /\ bcmCall.error = "BcmError"
    /\ "vlan_port_add" \in Range(bcmCall.log)
    /\ bcmCall.log[Len(bcmCall.log)] = "port_speed_set"
    /\ ~hw.enabled

(***************************************************************************)
(* BcmPort::updateStats: a failed read of inDiscards or inPause            *)
(***************************************************************************)
\* C37: the poll in which the read of inDiscards or of inPause fails, and
\* the poll that follows it, publish no non pause discards: neither adds
\* anything to the count.
C37_FailedReadAddsNothing ==
    pollCall.called /\ (pollCall.failed \/ pollCall.afterFailed)
      => lastPortStats_.portStats_.inNonPauseDiscards_ = STAT_UNINITIALIZED

\* The poll that follows a failed read, with the MMU lossy, has read both
\* counters and has found discards.
C37_Witness ==
    /\ pollCall.called /\ pollCall.lossy
    /\ pollCall.afterFailed /\ ~pollCall.failed
    /\ lastPortStats_.portStats_.inDiscards_ > 0
    /\ lastPortStats_.portStats_.inPause_ = 0
    /\ lastPortStats_.portStats_.inNonPauseDiscards_ = STAT_UNINITIALIZED

====
